---- MODULE Spec2Model ----
(***************************************************************************)
(* Model of the ChatWME Telegram bot (repository abdouuu19/tele): the      *)
(* bounded per-chat UserSession and the API-key rotation / retry           *)
(* controller makeGeminiRequest, in three of the near-duplicate programs   *)
(* of the repository:                                                      *)
(*   "bot"  - the first program of src/bot.js (lines 1-1020)               *)
(*   "p000" - src/unnamed/part_000                                         *)
(*   "p003" - src/unnamed/part_003                                         *)
(* JavaScript runs one callback at a time: an action of this model is the  *)
(* code that runs between two suspension points (await) of a handler.      *)
(* A JavaScript string that the program looks into (message texts, replies,*)
(* rendered contexts) is the sequence of its character codes; a string     *)
(* that only names something (a language code, a status, an error message) *)
(* is a TLA+ string.                                                       *)
(***************************************************************************)
EXTENDS Integers, Sequences, FiniteSets, TLC

(***************************************************************************)
(* Bounds of the exploration.                                              *)
(***************************************************************************)
\* addMessage calls explored on one session (above the largest cap, 12)
MaxAdds == 13
\* the clock is observed around the multiples 0..ClockPeriods of the cool-down
ClockPeriods == 1
\* top-level makeGeminiRequest invocations explored in one behaviour
MaxInvocations == 2
\* length of the texts handed to detectLanguage
MaxTextLen == 2
\* addMessage calls explored next to the language and interest operations
MaxLangAdds == 1
\* rotateApiKey calls made in a row
MaxRotations == 18
\* messages that arrive
MaxMessages == 2
\* messages that arrive while the handlers of two chats interleave
MaxPairMessages == 2
\* messages that arrive next to /start
MaxStartMessages == 4
\* messages of one chat that arrive in a row
MaxSameMessages == 2

(***************************************************************************)
(* Program constants.                                                      *)
(***************************************************************************)
\* GEMINI_KEYS is read from three environment variables, unset ones dropped
MaxKeys == 3
\* history caps of addMessage
CapBot == 12
Cap000 == 10
Cap003 == 6
CapSticky == 10
\* context windows of getContext / getContextPrompt
WindowBot == 8
Window000 == 5
\* contextKeywords keeps the 50 most recent keywords
MaxKeywords == 50
\* handleRateLimit: the key rests for one minute (milliseconds)
CoolDownMs == 60000

Variants == {"bot", "p000", "p003"}
\* the role strings 'user' and 'assistant'
User == <<117, 115, 101, 114>>
Assistant == <<97, 115, 115, 105, 115, 116, 97, 110, 116>>
Roles == {User, Assistant}

VARIABLES
    variant,              \* which program's UserSession class is exercised
    session,              \* the UserSession object under test
    added,                \* history: entries added since construction / clearHistory
    adds,                 \* history: number of addMessage calls so far
    lastOp,               \* history: name of the last session method called
    ret,                  \* history: value returned by that call
    arg,                  \* history: the text argument of that call
    pinned,               \* history: the values detectLanguage returned since
                          \*   a command last set the language (the last two)
    now,                  \* Date.now()
    numKeys,              \* GEMINI_KEYS.length
    currentKeyIndex,      \* module-level cursor into GEMINI_KEYS
    moves,                \* history: the values assigned to currentKeyIndex by
                          \*   the last step, in order (kept when traced)
    traced,               \* whether the exploration keeps moves
    rateLimitResetTime,   \* part_000: key index -> reset time, 0 when unset
    markedAt,             \* history: key index -> time of its last handleRateLimit, -1 if none
    keyUsageStats,        \* bot.js: key index -> [requests, errors]
    callers,              \* the callers whose invocations are explored
    goodKeys,             \* the keys whose upstream calls always answer with a text
    toStart,              \* top-level invocations that may still be started
    inv,                  \* caller -> state of its makeGeminiRequest invocation
    observed,             \* the callers whose invocations are recorded in hist
    hist,                 \* history: caller -> record of its top-level invocation
    userSessions,         \* the Map userSessions: chat id -> UserSession
    pipe,                 \* chat id -> the handler of its 'message' event in progress
    inbox,                \* messages that may still arrive
    botMetrics            \* part_000: the counters of botMetrics

chatVars == <<userSessions, pipe, inbox, botMetrics>>
objVars == <<variant, traced, session, added, adds, lastOp, ret, arg, pinned>>
sessVars == <<objVars, chatVars>>
keyVars == <<numKeys, currentKeyIndex, rateLimitResetTime, markedAt, keyUsageStats>>
ledgerVars == <<keyVars, moves>>
reqVars == <<callers, goodKeys, toStart, inv, observed, hist>>
vars == <<variant, traced, session, added, adds, lastOp, ret, arg, pinned, now, numKeys,
          currentKeyIndex, moves, rateLimitResetTime, markedAt, keyUsageStats, callers,
          goodKeys, toStart, inv, observed, hist, userSessions, pipe, inbox,
          botMetrics>>

(***************************************************************************)
(* JavaScript helpers.                                                     *)
(***************************************************************************)
Min(a, b) == IF a < b THEN a ELSE b
Max(a, b) == IF a > b THEN a ELSE b

\* slice(0, n) in place of slice(-n): keeps the oldest entries
SliceFirst(arr, n) == [i \in 1..Min(Len(arr), n) |-> arr[i]]

\* Array.prototype.slice(-n): a negative start counts from the end and is
\* clamped at the beginning of the array
SliceLast(arr, n) ==
    LET start == Max(Len(arr) - n, 0)
    IN  [i \in 1..(Len(arr) - start) |-> arr[start + i]]

\* Array.prototype.join(sep)
RECURSIVE Join(_, _)
Join(lines, sep) ==
    IF Len(lines) = 0 THEN <<>>
    ELSE IF Len(lines) = 1 THEN lines[1]
    ELSE lines[1] \o sep \o Join(Tail(lines), sep)

\* the template literal `${msg.role}: ${msg.content}`
RenderMessage(msg) == msg.role \o <<58, 32>> \o msg.content

\* the line separator '\n'
NewLine == <<10>>

\* String(n) of a natural number: its decimal digits
RECURSIVE NumberText(_)
NumberText(n) ==
    IF n < 10 THEN <<48 + n>> ELSE Append(NumberText(n \div 10), 48 + (n % 10))

\* String.prototype.toLowerCase, one character: the ASCII and the Latin-1
\* capitals have a small form 32 further; the Arabic letters have no case
LowerChar(c) ==
    IF (c >= 65 /\ c <= 90) \/ (c >= 192 /\ c <= 222 /\ c # 215) THEN c + 32
    ELSE c

toLowerCase(text) == [i \in 1..Len(text) |-> LowerChar(text[i])]

\* String.prototype.includes
includes(text, part) ==
    \E i \in 0..(Len(text) - Len(part)) :
        \A j \in 1..Len(part) : text[i + j] = part[j]

\* the class \w of a regular expression without the u flag
IsWordChar(c) ==
    (c >= 48 /\ c <= 57) \/ (c >= 65 /\ c <= 90) \/ (c >= 97 /\ c <= 122) \/ c = 95

\* the text of the n-th message handed to addMessage in the exploration:
\* 'msg' followed by n, different for every call
MessageText(n) == <<109, 115, 103>> \o NumberText(n)

(***************************************************************************)
(* UserSession, first program of src/bot.js.                               *)
(***************************************************************************)
UserSessionBot(userId, t) ==
    [ userId |-> userId,
      conversationHistory |-> <<>>,
      lastActivity |-> t,
      preferredLanguage |-> "auto",
      messageCount |-> 0,
      personality |-> "friendly",
      interests |-> <<>>,
      created |-> t,
      contextKeywords |-> <<>> ]

\* the positions at which a maximal run of word characters starts
WordStarts(text) ==
    { i \in 1..Len(text) :
        IsWordChar(text[i]) /\ (i = 1 \/ ~IsWordChar(text[i - 1])) }

\* the position at which the run that starts at i ends
WordEnd(text, i) ==
    CHOOSE j \in i..Len(text) :
        /\ \A k \in i..j : IsWordChar(text[k])
        /\ j = Len(text) \/ ~IsWordChar(text[j + 1])

\* the matches of /\b\w{3,}\b/g in a text, in the order of the text: the
\* maximal runs of word characters that are three characters long or more
WordRuns(text) ==
    LET starts == { i \in WordStarts(text) : WordEnd(text, i) - i + 1 >= 3 }
        nth(n) == CHOOSE i \in starts : Cardinality({ k \in starts : k < i }) = n - 1
    IN  [ n \in 1..Cardinality(starts) |->
            SubSeq(text, nth(n), WordEnd(text, nth(n))) ]

\* text.toLowerCase().match(/\b\w{3,}\b/g) || []
MatchWords(text) == WordRuns(toLowerCase(text))

\* Set.prototype.add on a Set kept in insertion order
SetAdd(keys, k) ==
    IF \E i \in 1..Len(keys) : keys[i] = k THEN keys ELSE Append(keys, k)

RECURSIVE AddKeywords(_, _)
AddKeywords(keys, words) ==
    IF Len(words) = 0 THEN keys
    ELSE AddKeywords(IF Len(Head(words)) > 3 THEN SetAdd(keys, Head(words))
                     ELSE keys,
                     Tail(words))

extractKeywords(s, text) ==
    LET all == AddKeywords(s.contextKeywords, MatchWords(text))
    IN  [s EXCEPT !.contextKeywords =
            IF Len(all) > MaxKeywords THEN SliceLast(all, MaxKeywords) ELSE all]

addMessageBot(s, role, content, t) ==
    LET pushed == Append(s.conversationHistory,
                         [role |-> role, content |-> content, timestamp |-> t])
        kept == IF Len(pushed) > CapBot THEN SliceLast(pushed, CapBot) ELSE pushed
    IN  extractKeywords([s EXCEPT !.conversationHistory = kept,
                                  !.lastActivity = t,
                                  !.messageCount = @ + 1],
                        content)

\* a window of 7 in place of 8
getContextBotWindow7(s) ==
    Join([i \in 1..Len(SliceLast(s.conversationHistory, WindowBot - 1)) |->
             RenderMessage(SliceLast(s.conversationHistory, WindowBot - 1)[i])],
         NewLine)

getContextBot(s) ==
    Join([i \in 1..Len(SliceLast(s.conversationHistory, WindowBot)) |->
             RenderMessage(SliceLast(s.conversationHistory, WindowBot)[i])],
         NewLine)

\* clearHistory that also resets the counter
clearHistoryBotResetCount(s, t) ==
    [s EXCEPT !.conversationHistory = <<>>,
              !.contextKeywords = <<>>,
              !.messageCount = 0,
              !.lastActivity = t]

clearHistoryBot(s, t) ==
    [s EXCEPT !.conversationHistory = <<>>,
              !.contextKeywords = <<>>,
              !.lastActivity = t]

(***************************************************************************)
(* UserSession.updateInterests, first program of src/bot.js.               *)
(***************************************************************************)
\* interestMap, in the order of its properties
interestMap ==
    <<
      \* coding, programming, tech, AI, computer, software, app, (Arabic), (Arabic), (Arabic)
      [ interest |-> "tech",
        keywords |-> <<
            <<99, 111, 100, 105, 110, 103>>,
            <<112, 114, 111, 103, 114, 97, 109, 109, 105, 110, 103>>,
            <<116, 101, 99, 104>>,
            <<65, 73>>,
            <<99, 111, 109, 112, 117, 116, 101, 114>>,
            <<115, 111, 102, 116, 119, 97, 114, 101>>,
            <<97, 112, 112>>,
            <<1576, 1585, 1605, 1580, 1577>>,
            <<1578, 1602, 1606, 1610, 1577>>,
            <<1603, 1605, 1576, 1610, 1608, 1578, 1585>> >> ],
      \* football, soccer, basketball, sport, match, game, (Arabic), (Arabic), (Arabic)
      [ interest |-> "sports",
        keywords |-> <<
            <<102, 111, 111, 116, 98, 97, 108, 108>>,
            <<115, 111, 99, 99, 101, 114>>,
            <<98, 97, 115, 107, 101, 116, 98, 97, 108, 108>>,
            <<115, 112, 111, 114, 116>>,
            <<109, 97, 116, 99, 104>>,
            <<103, 97, 109, 101>>,
            <<1603, 1585, 1577, 32, 1575, 1604, 1602, 1583, 1605>>,
            <<1585, 1610, 1575, 1590, 1577>>,
            <<1605, 1576, 1575, 1585, 1575, 1577>> >> ],
      \* music, art, culture, movie, book, film, (Arabic), (Arabic), (Arabic), (Arabic)
      [ interest |-> "culture",
        keywords |-> <<
            <<109, 117, 115, 105, 99>>,
            <<97, 114, 116>>,
            <<99, 117, 108, 116, 117, 114, 101>>,
            <<109, 111, 118, 105, 101>>,
            <<98, 111, 111, 107>>,
            <<102, 105, 108, 109>>,
            <<1605, 1608, 1587, 1610, 1602, 1609>>,
            <<1601, 1606>>,
            <<1579, 1602, 1575, 1601, 1577>>,
            <<1601, 1610, 1604, 1605>> >> ],
      \* study, school, university, learn, education, (Arabic), (Arabic), (Arabic), (Arabic)
      [ interest |-> "education",
        keywords |-> <<
            <<115, 116, 117, 100, 121>>,
            <<115, 99, 104, 111, 111, 108>>,
            <<117, 110, 105, 118, 101, 114, 115, 105, 116, 121>>,
            <<108, 101, 97, 114, 110>>,
            <<101, 100, 117, 99, 97, 116, 105, 111, 110>>,
            <<1583, 1585, 1575, 1587, 1577>>,
            <<1605, 1583, 1585, 1587, 1577>>,
            <<1580, 1575, 1605, 1593, 1577>>,
            <<1578, 1593, 1604, 1605>> >> ],
      \* work, job, business, money, career, (Arabic), (Arabic), (Arabic), (Arabic)
      [ interest |-> "business",
        keywords |-> <<
            <<119, 111, 114, 107>>,
            <<106, 111, 98>>,
            <<98, 117, 115, 105, 110, 101, 115, 115>>,
            <<109, 111, 110, 101, 121>>,
            <<99, 97, 114, 101, 101, 114>>,
            <<1593, 1605, 1604>>,
            <<1608, 1592, 1610, 1601, 1577>>,
            <<1578, 1580, 1575, 1585, 1577>>,
            <<1605, 1575, 1604>> >> ],
      \* health, medicine, doctor, exercise, fitness, (Arabic), (Arabic), (Arabic), (Arabic)
      [ interest |-> "health",
        keywords |-> <<
            <<104, 101, 97, 108, 116, 104>>,
            <<109, 101, 100, 105, 99, 105, 110, 101>>,
            <<100, 111, 99, 116, 111, 114>>,
            <<101, 120, 101, 114, 99, 105, 115, 101>>,
            <<102, 105, 116, 110, 101, 115, 115>>,
            <<1589, 1581, 1577>>,
            <<1591, 1576, 1610, 1576>>,
            <<1585, 1610, 1575, 1590, 1577>>,
            <<1604, 1610, 1575, 1602, 1577>> >> ]
    >>

\* this.interests.slice(-5)
MaxInterests == 5

\* the forEach over Object.entries(interestMap), from entry i on
RECURSIVE PushInterests(_, _, _)
PushInterests(interests, lowerMessage, i) ==
    IF i > Len(interestMap) THEN interests
    ELSE LET e == interestMap[i]
             some == \E k \in 1..Len(e.keywords) :
                        includes(lowerMessage, e.keywords[k])
             has == \E j \in 1..Len(interests) : interests[j] = e.interest
         IN  PushInterests(IF some /\ ~has THEN Append(interests, e.interest)
                           ELSE interests,
                           lowerMessage, i + 1)

updateInterests(s, message) ==
    LET pushed == PushInterests(s.interests, toLowerCase(message), 1)
    IN  [s EXCEPT !.interests =
            IF Len(pushed) > MaxInterests THEN SliceLast(pushed, MaxInterests)
            ELSE pushed]

(***************************************************************************)
(* UserSession, src/unnamed/part_000.                                      *)
(***************************************************************************)
UserSession000(userId, t) ==
    [ userId |-> userId,
      conversationHistory |-> <<>>,
      preferredLanguage |-> "auto",
      lastActivity |-> t,
      messageCount |-> 0,
      preferences |-> [longResponses |-> FALSE, includeEmojis |-> TRUE,
                       formalTone |-> FALSE] ]

addMessage000(s, role, content, t) ==
    LET pushed == Append(s.conversationHistory,
                         [role |-> role, content |-> content, timestamp |-> t])
        kept == IF Len(pushed) > Cap000 THEN SliceLast(pushed, Cap000) ELSE pushed
    IN  [s EXCEPT !.conversationHistory = kept,
                  !.lastActivity = t,
                  !.messageCount = @ + 1]

getContextPrompt000(s) ==
    IF Len(s.conversationHistory) = 0 THEN <<>>
    ELSE Join([i \in 1..Len(SliceLast(s.conversationHistory, Window000)) |->
                  RenderMessage(SliceLast(s.conversationHistory, Window000)[i])],
              NewLine)

(***************************************************************************)
(* UserSession, src/unnamed/part_003.                                      *)
(***************************************************************************)
UserSession003(userId, t) ==
    [ userId |-> userId,
      conversationHistory |-> <<>>,
      lastActivity |-> t,
      preferredLanguage |-> "auto",
      messageCount |-> 0 ]

addMessage003(s, role, content, t) ==
    LET pushed == Append(s.conversationHistory,
                         [role |-> role, content |-> content])
        kept == IF Len(pushed) > Cap003 THEN SliceLast(pushed, Cap003) ELSE pushed
    IN  [s EXCEPT !.conversationHistory = kept,
                  !.lastActivity = t,
                  !.messageCount = @ + 1]

getContext003(s) ==
    Join([i \in 1..Len(s.conversationHistory) |->
             RenderMessage(s.conversationHistory[i])],
         NewLine)

clearHistory003(s) == [s EXCEPT !.conversationHistory = <<>>]

(***************************************************************************)
(* UserSession, third program of src/bot.js (the "sticky" one): the        *)
(* language of the session is pinned by the first detectLanguage call.     *)
(***************************************************************************)
\* the value null
Null == "null"

UserSessionSticky(userId, t) ==
    [ userId |-> userId,
      conversationHistory |-> <<>>,
      lastActivity |-> t,
      language |-> Null,
      messageCount |-> 0,
      createdAt |-> t ]

addMessageSticky(s, role, content, t) ==
    LET pushed == Append(s.conversationHistory,
                         [role |-> role, content |-> content, timestamp |-> t])
        kept == IF Len(pushed) > CapSticky THEN SliceLast(pushed, CapSticky)
                ELSE pushed
    IN  [s EXCEPT !.conversationHistory = kept,
                  !.lastActivity = t,
                  !.messageCount = @ + 1]

\* clearHistory that also forgets the language
clearHistoryStickyForget(s) ==
    [s EXCEPT !.conversationHistory = <<>>, !.language = Null]

clearHistorySticky(s) == [s EXCEPT !.conversationHistory = <<>>]

(***************************************************************************)
(* Language detection.                                                     *)
(***************************************************************************)
\* /[\u0600-\u06FF]/.test(text)
arabicPattern(text) == \E i \in 1..Len(text) : text[i] >= 1536 /\ text[i] <= 1791

\* the characters of the class [àâäéèêëïîôöùûüÿç]
AccentedChars ==
    {224, 226, 228, 233, 232, 234, 235, 239, 238, 244, 246, 249, 251, 252, 255, 231}

\* String.prototype.toUpperCase of one accented character of that class:
\* the capital is 32 before, that of ÿ is U+0178
UpperChar(c) == IF c = 255 THEN 376 ELSE c - 32

\* /[àâäéèêëïîôöùûüÿç]/i.test(text): with the i flag a character matches
\* when it has the capital of a character of the class
frenchPattern(text) ==
    \E i \in 1..Len(text) :
        \/ text[i] \in AccentedChars
        \/ \E c \in AccentedChars : text[i] = UpperChar(c)

\* /[a-zA-Z]/.test(text)
englishPattern(text) ==
    \E i \in 1..Len(text) :
        (text[i] >= 65 /\ text[i] <= 90) \/ (text[i] >= 97 /\ text[i] <= 122)

\* src/bot.js, first program
detectLanguageBot(text) ==
    IF arabicPattern(text) THEN "ar"
    ELSE IF frenchPattern(text) /\ ~englishPattern(text) THEN "fr"
    ELSE "en"

\* detectLanguage that detects again at every call
detectLanguageStickyRedetect(s, text) ==
    LET detected == IF arabicPattern(text) THEN "ar" ELSE "en"
    IN  [ session |-> [s EXCEPT !.language = detected], value |-> detected ]

\* src/bot.js, third program: the session after the call and the value
\* returned
detectLanguageSticky(s, text) ==
    LET detected == IF arabicPattern(text) THEN "ar" ELSE "en"
        after == IF s.language = Null THEN [s EXCEPT !.language = detected]
                 ELSE s
    IN  [ session |-> after, value |-> after.language ]

(***************************************************************************)
(* The session under test: dispatch on the program.                        *)
(***************************************************************************)
NewSession(v, t) ==
    IF v = "bot" THEN UserSessionBot(1, t)
    ELSE IF v = "p000" THEN UserSession000(1, t)
    ELSE IF v = "sticky" THEN UserSessionSticky(1, t)
    ELSE UserSession003(1, t)

Cap(v) ==
    IF v = "bot" THEN CapBot
    ELSE IF v = "p000" THEN Cap000
    ELSE IF v = "sticky" THEN CapSticky
    ELSE Cap003

\* the entry addMessage pushes, as the program of the variant builds it
Entry(v, role, content, t) ==
    IF v = "p003" THEN [role |-> role, content |-> content]
    ELSE [role |-> role, content |-> content, timestamp |-> t]

\* session.addMessage(role, content) of program v
addMessageOf(v, s, role, content, t) ==
    IF v = "bot" THEN addMessageBot(s, role, content, t)
    ELSE IF v = "p000" THEN addMessage000(s, role, content, t)
    ELSE IF v = "sticky" THEN addMessageSticky(s, role, content, t)
    ELSE addMessage003(s, role, content, t)

\* session.clearHistory() of program v
clearHistoryOf(v, s, t) ==
    IF v = "bot" THEN clearHistoryBot(s, t)
    ELSE IF v = "sticky" THEN clearHistorySticky(s)
    ELSE clearHistory003(s)

\* new UserSession(...) of program v, no method called yet
InitSessionOf(v) ==
    /\ variant = v
    /\ session = NewSession(v, 0)
    /\ added = <<>>
    /\ adds = 0
    /\ lastOp = "new"
    /\ ret = ""
    /\ arg = <<>>
    /\ pinned = <<>>

InitSession == \E v \in Variants : InitSessionOf(v)

\* session.addMessage(role, content)
AddMessage ==
    /\ adds < MaxAdds
    /\ \E role \in Roles :
        LET content == MessageText(adds + 1)
        IN  /\ session' = addMessageOf(variant, session, role, content, now)
            /\ added' = Append(added, Entry(variant, role, content, now))
    /\ adds' = adds + 1
    /\ lastOp' = "addMessage"
    /\ ret' = ""
    /\ arg' = <<>>
    /\ UNCHANGED <<variant, traced, chatVars, pinned, now, ledgerVars, reqVars>>

\* session.getContext() (getContextPrompt() in part_000)
GetContext ==
    /\ ret' = (IF variant = "bot" THEN getContextBot(session)
               ELSE IF variant = "p000" THEN getContextPrompt000(session)
               ELSE getContext003(session))
    /\ lastOp' = "getContext"
    /\ arg' = <<>>
    /\ UNCHANGED <<variant, traced, chatVars, session, added, adds, pinned, now, ledgerVars, reqVars>>

\* session.clearHistory() (part_000 has no such method)
ClearHistory ==
    /\ variant # "p000"
    /\ session' = clearHistoryOf(variant, session, now)
    /\ added' = <<>>
    /\ lastOp' = "clearHistory"
    /\ ret' = ""
    /\ arg' = <<>>
    /\ UNCHANGED <<variant, traced, chatVars, adds, pinned, now, ledgerVars, reqVars>>

NextSession == AddMessage \/ GetContext \/ ClearHistory

(***************************************************************************)
(* The language and interest operations on the session under test.         *)
(***************************************************************************)
\* the characters the explored texts are made of: an Arabic letter (meem),
\* an accented Latin letter (e acute), an ASCII letter (a)
LangChars == {1605, 233, 97}

\* texts of one character next to the ends of the ranges of the patterns
BoundaryTexts ==
    {<<1535>>, <<1536>>, <<1791>>, <<1792>>, <<201>>, <<376>>, <<215>>, <<90>>,
     <<49>>}

LangTexts ==
    UNION {[1..n -> LangChars] : n \in 0..MaxTextLen} \cup BoundaryTexts

\* texts handed to updateInterests: 'tech', 'AI', the Arabic word for sport
\* (a keyword of sports and of health), 'hello', and a text with a keyword
\* of each of the six interests
InterestTexts ==
    { <<116, 101, 99, 104>>,
      <<65, 73>>,
      <<1585, 1610, 1575, 1590, 1577>>,
      <<104, 101, 108, 108, 111>>,
      <<67, 111, 100, 105, 110, 103, 32, 115, 112, 111, 114, 116, 32, 109, 117, 115, 105, 99, 32, 115, 116, 117, 100, 121, 32, 119, 111, 114, 107, 32, 104, 101, 97, 108, 116, 104>> }

\* msg.text of a /start command: '/start', or '/start' and the Arabic word
\* for Arabic
StartTexts ==
    { <<47, 115, 116, 97, 114, 116>>,
      <<47, 115, 116, 97, 114, 116, 32, 1575, 1604, 1593, 1585, 1576, 1610, 1577>> }

\* msg.from.language_code
LanguageCodes == {"ar", "en", "fr", "undefined"}

\* commands.language, on the stored session
commandLanguage(s) ==
    LET currentLang == IF s.language = Null THEN "en" ELSE s.language
        newLang == IF currentLang = "ar" THEN "en" ELSE "ar"
    IN  [s EXCEPT !.language = newLang]

\* commands.start, on the stored session
commandStart(s, text, languageCode) ==
    LET language == IF includes(text, <<1575, 1604, 1593, 1585, 1576, 1610, 1577>>) \/ languageCode = "ar"
                    THEN "ar" ELSE "en"
    IN  [s EXCEPT !.language = language]

\* session.detectLanguage(text)
DetectLanguage ==
    /\ \E text \in LangTexts :
        /\ arg' = text
        /\ IF variant = "sticky"
           THEN LET r == detectLanguageSticky(session, text)
                IN  /\ session' = r.session
                    /\ ret' = r.value
                    /\ pinned' = SliceLast(Append(pinned, r.value), 2)
           ELSE /\ ret' = detectLanguageBot(text)
                /\ UNCHANGED <<session, pinned>>
    /\ lastOp' = "detectLanguage"
    /\ UNCHANGED <<variant, traced, chatVars, added, adds, now, ledgerVars, reqVars>>

\* the /language command of the third program
LanguageCommand ==
    /\ variant = "sticky"
    /\ session' = commandLanguage(session)
    /\ pinned' = <<>>
    /\ lastOp' = "language"
    /\ ret' = ""
    /\ arg' = <<>>
    /\ UNCHANGED <<variant, traced, chatVars, added, adds, now, ledgerVars, reqVars>>

\* the /start command of the third program
StartCommand ==
    /\ variant = "sticky"
    /\ \E text \in StartTexts, code \in LanguageCodes :
        /\ session' = commandStart(session, text, code)
        /\ arg' = text
    /\ pinned' = <<>>
    /\ lastOp' = "start"
    /\ ret' = ""
    /\ UNCHANGED <<variant, traced, chatVars, added, adds, now, ledgerVars, reqVars>>

\* session.updateInterests(message) of the first program
UpdateInterests ==
    /\ variant = "bot"
    /\ \E text \in InterestTexts :
        /\ session' = updateInterests(session, text)
        /\ arg' = text
    /\ lastOp' = "updateInterests"
    /\ ret' = ""
    /\ UNCHANGED <<variant, traced, chatVars, added, adds, pinned, now, ledgerVars, reqVars>>

NextLang ==
    \/ (adds < MaxLangAdds /\ AddMessage)
    \/ ClearHistory
    \/ DetectLanguage
    \/ LanguageCommand
    \/ StartCommand
    \/ UpdateInterests

(***************************************************************************)
(* The clock.  Date.now() is read by the handlers; the exploration lets it *)
(* jump to any later instant of Times, the instants next to the multiples  *)
(* of the cool-down.                                                       *)
(***************************************************************************)
Times ==
    { t \in { k * CoolDownMs + j : k \in 0..ClockPeriods, j \in {-1, 0} } :
        t >= 0 }

Tick ==
    /\ \E t \in Times : t > now /\ now' = t
    /\ moves' = <<>>
    /\ UNCHANGED <<sessVars, keyVars, reqVars>>

(***************************************************************************)
(* The upstream (generative API) as the controller sees it.                *)
(***************************************************************************)
\* MODELS of part_000
ModelText == "gemini-2.0-flash-exp"
ModelFallback == "gemini-1.5-flash"

\* response.data.candidates[0].content.parts[0].text of a call made with
\* GEMINI_KEYS[k]
\* GEMINI_KEYS[k]: 'reply of key k'
ReplyText(k) ==
    <<114, 101, 112, 108, 121, 32, 111, 102, 32, 107, 101, 121, 32>>
        \o NumberText(k)

\* the value undefined: not a string (no character code is negative)
Undefined == <<-1>>

KeyIndexes == 0..(numKeys - 1)

(***************************************************************************)
(* Key ledger of src/unnamed/part_000.                                     *)
(***************************************************************************)
\* rotateApiKey: the new value of currentKeyIndex
\* the remainder taken by the number of key variables, not of keys present
rotateApiKeyAllSlots(idx) == (idx + 1) % MaxKeys

\* an advance by two
rotateApiKeyTwice(idx) == (idx + 2) % numKeys

rotateApiKey(idx) == (idx + 1) % numKeys

\* the history of the values assigned by a step, when it is kept
Traced(path) == IF traced THEN path ELSE <<>>

\* the values the cursor takes when rotateApiKey() is called k times from idx
RECURSIVE RotatePath(_, _)
RotatePath(idx, k) ==
    IF k = 0 THEN <<>>
    ELSE <<rotateApiKey(idx)>> \o RotatePath(rotateApiKey(idx), k - 1)

\* rotateApiKey() called k times in a row
RotateTimes ==
    /\ \E k \in 1..MaxRotations :
        LET path == RotatePath(currentKeyIndex, k)
        IN  /\ currentKeyIndex' = path[k]
            /\ moves' = Traced(path)
    /\ UNCHANGED <<sessVars, now, numKeys, rateLimitResetTime, markedAt,
                   keyUsageStats, reqVars>>

\* the comparison now > resetTime in place of now >= resetTime
canUseCurrentKeyStrict(idx, resets, t) ==
    LET resetTime == resets[idx]
    IN  resetTime = 0 \/ t > resetTime

\* no check at all
canUseCurrentKeyAlways(idx, resets, t) == TRUE

\* canUseCurrentKey with the cursor on idx, Date.now() = t
\* (!resetTime is true for a missing entry, modelled as 0)
canUseCurrentKey(idx, resets, t) ==
    LET resetTime == resets[idx]
    IN  resetTime = 0 \/ t >= resetTime

\* a mark put on every key
handleRateLimitAllKeys(idx, resets, t) ==
    [k \in DOMAIN resets |-> t + CoolDownMs]

\* the mark put on the key after the rotation instead of before it
handleRateLimitAfterRotate(idx, resets, t) ==
    [resets EXCEPT ![(idx + 1) % numKeys] = t + CoolDownMs]

\* handleRateLimit: the new rateLimitResetTime (the rotation that follows is
\* applied by the caller of this operator)
handleRateLimit(idx, resets, t) == [resets EXCEPT ![idx] = t + CoolDownMs]

\* one attempt per key
maxAttemptsOnePerKey == numKeys

\* const maxAttempts = GEMINI_KEYS.length * 2
maxAttempts000 == numKeys * 2

(***************************************************************************)
(* makeGeminiRequest of src/unnamed/part_000.                              *)
(* An invocation is a record:                                              *)
(*   pc         "idle", "awaiting" (axios.post in flight), "returned",     *)
(*              "threw"                                                    *)
(*   model, retryCount, attempts   the parameters and the local counter    *)
(*   usedKey    index of the key the request in flight was built with      *)
(*   result, error   the value returned / the message of the Error thrown  *)
(* The parameters and locals are gone once the invocation has ended.       *)
(* hist records, for an observed caller, the history of its top-level      *)
(* invocation, the recursive fallback call included: calls (upstream calls *)
(* issued), iters (loop iterations begun), nOk / n429 / n400 / nOther      *)
(* (answers received), startKey (the cursor when it began), coolingAtStart (the     *)
(* keys that were cooling then).                                           *)
(***************************************************************************)
IdleInvocation ==
    [ pc |-> "idle", model |-> ModelText, retryCount |-> 0, attempts |-> 0,
      usedKey |-> -1, result |-> <<>>, error |-> "" ]

NoHistory ==
    [ calls |-> 0, iters |-> 0, nOk |-> 0, n429 |-> 0, n400 |-> 0, nOther |-> 0,
      startKey |-> 0, coolingAtStart |-> {}, last |-> "none" ]

\* the invocation ends: its frame is dropped, the outcome stays
Returned(f, text) ==
    [IdleInvocation EXCEPT !.pc = "returned", !.result = text]

Threw(f, message) ==
    [IdleInvocation EXCEPT !.pc = "threw", !.error = message]

Record(p, h) ==
    hist' = IF p \in observed THEN [hist EXCEPT ![p] = h] ELSE hist

\* the status of an answer as the history keeps it (kept when traced)
Seen(status) == IF traced THEN status ELSE "none"

\* lines 128-133: while the cursor is on a cooling key and attempts remain,
\* rotate and count an attempt; yields the cursor and the counter after it,
\* and the values the cursor took on the way
RECURSIVE skipCooling(_, _, _, _)
skipCooling(idx, attempts, resets, t) ==
    IF attempts < maxAttempts000 /\ ~canUseCurrentKey(idx, resets, t)
    THEN LET s == skipCooling(rotateApiKey(idx), attempts + 1, resets, t)
         IN  [s EXCEPT !.moves = <<rotateApiKey(idx)>> \o @]
    ELSE [idx |-> idx, attempts |-> attempts, moves |-> <<>>]

\* the while loop from its head to the next suspension: either the request
\* is issued with the key under the cursor (line 163) or the loop ends and
\* line 195 throws; yields the cursor, the frame, and the numbers of loop
\* iterations begun and of requests issued
runLoop000(f, idx, resets, t) ==
    LET s == skipCooling(idx, f.attempts, resets, t)
        skipped == s.attempts - f.attempts
    IN  IF s.attempts < maxAttempts000
        THEN [ idx |-> s.idx,
               moves |-> s.moves,
               f |-> [f EXCEPT !.pc = "awaiting",
                               !.attempts = s.attempts,
                               !.usedKey = s.idx],
               iters |-> skipped + 1,
               calls |-> 1 ]
        ELSE [ idx |-> s.idx,
               moves |-> s.moves,
               f |-> Threw(f, "All API keys exhausted"),
               iters |-> skipped,
               calls |-> 0 ]

\* a caller invokes makeGeminiRequest(MODELS.TEXT, prompt)
Start000(p) ==
    /\ inv[p].pc \in {"idle", "returned", "threw"}
    /\ toStart > 0
    /\ toStart' = toStart - 1
    /\ LET r == runLoop000(IdleInvocation, currentKeyIndex, rateLimitResetTime, now)
       IN  /\ inv' = [inv EXCEPT ![p] = r.f]
           /\ currentKeyIndex' = r.idx
           /\ moves' = Traced(r.moves)
           /\ Record(p, [NoHistory EXCEPT
                           !.startKey = currentKeyIndex,
                           !.coolingAtStart =
                               { k \in KeyIndexes :
                                   /\ rateLimitResetTime[k] # 0
                                   /\ now < rateLimitResetTime[k] },
                           !.iters = r.iters,
                           !.calls = r.calls])
    /\ UNCHANGED <<sessVars, now, numKeys, rateLimitResetTime, markedAt,
                   keyUsageStats, callers, goodKeys, observed>>

\* a success that is counted and followed by another turn of the loop
RespondOkContinue000(p) ==
    /\ inv[p].pc = "awaiting"
    /\ LET r == runLoop000([inv[p] EXCEPT !.attempts = @ + 1],
                           currentKeyIndex, rateLimitResetTime, now)
       IN  /\ inv' = [inv EXCEPT ![p] = r.f]
           /\ Record(p, [hist[p] EXCEPT !.nOk = @ + 1,
                                        !.iters = @ + r.iters,
                                        !.calls = @ + r.calls])
    /\ moves' = <<>>
    /\ UNCHANGED <<sessVars, now, keyVars, callers, goodKeys, toStart, observed>>

\* a success after which the cursor moves on to the next key
RespondOkRotate000(p) ==
    /\ inv[p].pc = "awaiting"
    /\ inv' = [inv EXCEPT ![p] = Returned(inv[p], ReplyText(inv[p].usedKey))]
    /\ Record(p, [hist[p] EXCEPT !.nOk = @ + 1, !.last = Seen("ok")])
    /\ currentKeyIndex' = rotateApiKey(currentKeyIndex)
    /\ moves' = Traced(<<rotateApiKey(currentKeyIndex)>>)
    /\ UNCHANGED <<sessVars, now, numKeys, rateLimitResetTime, markedAt,
                   keyUsageStats, callers, goodKeys, toStart, observed>>

\* the request answers with candidates: lines 168-170
RespondOk000(p) ==
    /\ inv[p].pc = "awaiting"
    /\ inv' = [inv EXCEPT ![p] = Returned(inv[p], ReplyText(inv[p].usedKey))]
    /\ Record(p, [hist[p] EXCEPT !.nOk = @ + 1, !.last = Seen("ok")])
    /\ moves' = <<>>
    /\ UNCHANGED <<sessVars, now, keyVars, callers, goodKeys, toStart, observed>>

\* the request answers 429: lines 178-179, 191, then the loop again
Respond429000(p) ==
    /\ inv[p].pc = "awaiting"
    /\ inv[p].usedKey \notin goodKeys
    /\ LET resets == handleRateLimit(currentKeyIndex, rateLimitResetTime, now)
           f1 == [inv[p] EXCEPT !.attempts = @ + 1]
           r == runLoop000(f1, rotateApiKey(currentKeyIndex), resets, now)
       IN  /\ rateLimitResetTime' = resets
           /\ markedAt' = [markedAt EXCEPT ![currentKeyIndex] = now]
           /\ inv' = [inv EXCEPT ![p] = r.f]
           /\ currentKeyIndex' = r.idx
           /\ moves' = Traced(<<rotateApiKey(currentKeyIndex)>> \o r.moves)
           /\ Record(p, [hist[p] EXCEPT !.n429 = @ + 1,
                                        !.last = Seen("429"),
                                        !.iters = @ + r.iters,
                                        !.calls = @ + r.calls])
    /\ UNCHANGED <<sessVars, now, numKeys, keyUsageStats, callers, goodKeys, toStart,
                   observed>>

\* a 400 that is retried on the fallback model a second time
Respond400Again000(p) ==
    /\ inv[p].pc = "awaiting"
    /\ inv[p].usedKey \notin goodKeys
    /\ IF inv[p].retryCount < 2
       THEN LET f1 == [inv[p] EXCEPT !.model = ModelFallback,
                                     !.retryCount = @ + 1,
                                     !.attempts = 0]
                r == runLoop000(f1, currentKeyIndex, rateLimitResetTime, now)
            IN  /\ inv' = [inv EXCEPT ![p] = r.f]
                /\ currentKeyIndex' = r.idx
                /\ moves' = Traced(r.moves)
                /\ Record(p, [hist[p] EXCEPT !.n400 = @ + 1,
                                             !.last = Seen("400"),
                                             !.iters = @ + r.iters,
                                             !.calls = @ + r.calls])
       ELSE /\ inv' = [inv EXCEPT ![p] = Threw(inv[p], "Invalid request format")]
            /\ Record(p, [hist[p] EXCEPT !.n400 = @ + 1, !.last = Seen("400")])
            /\ moves' = <<>>
            /\ UNCHANGED currentKeyIndex
    /\ UNCHANGED <<sessVars, now, numKeys, rateLimitResetTime, markedAt,
                   keyUsageStats, callers, goodKeys, toStart, observed>>

\* another failure that costs no attempt
RespondOtherFree000(p) ==
    /\ inv[p].pc = "awaiting"
    /\ inv[p].usedKey \notin goodKeys
    /\ LET f1 == inv[p]
           r == runLoop000(f1, rotateApiKey(currentKeyIndex), rateLimitResetTime, now)
       IN  /\ inv' = [inv EXCEPT ![p] = r.f]
           /\ currentKeyIndex' = r.idx
           /\ moves' = Traced(<<rotateApiKey(currentKeyIndex)>> \o r.moves)
           /\ \E status \in {"403", "other"} :
                 Record(p, [hist[p] EXCEPT !.nOther = @ + 1,
                                          !.last = Seen(status),
                                          !.iters = @ + r.iters,
                                          !.calls = @ + r.calls])
    /\ UNCHANGED <<sessVars, now, numKeys, rateLimitResetTime, markedAt,
                   keyUsageStats, callers, goodKeys, toStart, observed>>

\* another failure after which the cursor stays where it is
RespondOtherStay000(p) ==
    /\ inv[p].pc = "awaiting"
    /\ inv[p].usedKey \notin goodKeys
    /\ LET f1 == [inv[p] EXCEPT !.attempts = @ + 1]
           r == runLoop000(f1, currentKeyIndex, rateLimitResetTime, now)
       IN  /\ inv' = [inv EXCEPT ![p] = r.f]
           /\ currentKeyIndex' = r.idx
           /\ moves' = Traced(r.moves)
           /\ \E status \in {"403", "other"} :
                 Record(p, [hist[p] EXCEPT !.nOther = @ + 1,
                                          !.last = Seen(status),
                                          !.iters = @ + r.iters,
                                          !.calls = @ + r.calls])
    /\ UNCHANGED <<sessVars, now, numKeys, rateLimitResetTime, markedAt,
                   keyUsageStats, callers, goodKeys, toStart, observed>>

\* the request answers 400: lines 180-186; the fallback retry is a nested
\* invocation whose result or error is the result or error of this one
Respond400000(p) ==
    /\ inv[p].pc = "awaiting"
    /\ inv[p].usedKey \notin goodKeys
    /\ IF inv[p].model # ModelFallback /\ inv[p].retryCount < 1
       THEN LET f1 == [inv[p] EXCEPT !.model = ModelFallback,
                                     !.retryCount = @ + 1,
                                     !.attempts = 0]
                r == runLoop000(f1, currentKeyIndex, rateLimitResetTime, now)
            IN  /\ inv' = [inv EXCEPT ![p] = r.f]
                /\ currentKeyIndex' = r.idx
                /\ moves' = Traced(r.moves)
                /\ Record(p, [hist[p] EXCEPT !.n400 = @ + 1,
                                             !.last = Seen("400"),
                                             !.iters = @ + r.iters,
                                             !.calls = @ + r.calls])
       ELSE /\ inv' = [inv EXCEPT ![p] = Threw(inv[p], "Invalid request format")]
            /\ Record(p, [hist[p] EXCEPT !.n400 = @ + 1, !.last = Seen("400")])
            /\ moves' = <<>>
            /\ UNCHANGED currentKeyIndex
    /\ UNCHANGED <<sessVars, now, numKeys, rateLimitResetTime, markedAt,
                   keyUsageStats, callers, goodKeys, toStart, observed>>

\* any other failure (403, 5xx, timeout, network, no candidates):
\* lines 187-191, then the loop again
RespondOther000(p) ==
    /\ inv[p].pc = "awaiting"
    /\ inv[p].usedKey \notin goodKeys
    /\ LET f1 == [inv[p] EXCEPT !.attempts = @ + 1]
           r == runLoop000(f1, rotateApiKey(currentKeyIndex), rateLimitResetTime, now)
       IN  /\ inv' = [inv EXCEPT ![p] = r.f]
           /\ currentKeyIndex' = r.idx
           /\ moves' = Traced(<<rotateApiKey(currentKeyIndex)>> \o r.moves)
           /\ \E status \in {"403", "other"} :
                 Record(p, [hist[p] EXCEPT !.nOther = @ + 1,
                                          !.last = Seen(status),
                                          !.iters = @ + r.iters,
                                          !.calls = @ + r.calls])
    /\ UNCHANGED <<sessVars, now, numKeys, rateLimitResetTime, markedAt,
                   keyUsageStats, callers, goodKeys, toStart, observed>>

Next000 ==
    \/ Tick
    \/ \E p \in callers : Start000(p)
    \/ \E p \in callers : RespondOk000(p)
    \/ \E p \in callers : Respond429000(p)
    \/ \E p \in callers : Respond400000(p)
    \/ \E p \in callers : RespondOther000(p)

(***************************************************************************)
(* makeGeminiRequest of the first program of src/bot.js (lines 181-255).   *)
(* The invocation record is the one of part_000, attempts holding the loop *)
(* variable attempt; pc is also "sleeping" while the invocation awaits the *)
(* setTimeout promise of line 243 or 252.  No key ever rests in this       *)
(* program, so the clock does not matter to it.                            *)
(***************************************************************************)
\* const maxRetries = GEMINI_KEYS.length * 2
maxRetriesBot == numKeys * 2

\* error.message of the rejection for an answer with that status
ErrorMessage(status) ==
    IF status = "other" THEN "No valid response from Gemini API"
    ELSE "Request failed with status code " \o status

\* lines 186-191: the request is built with the key under the cursor and
\* counted on it
issueBot(f, stats, idx) ==
    [ f |-> [f EXCEPT !.pc = "awaiting", !.usedKey = idx],
      stats |-> [stats EXCEPT ![idx].requests = @ + 1] ]

\* makeGeminiRequest(prompt) is entered and issues its first request:
\* lines 181-191
enterBot(p) ==
    /\ LET r == issueBot(IdleInvocation, keyUsageStats, currentKeyIndex)
       IN  /\ inv' = [inv EXCEPT ![p] = r.f]
           /\ keyUsageStats' = r.stats
    /\ Record(p, [NoHistory EXCEPT !.startKey = currentKeyIndex,
                                   !.iters = 1, !.calls = 1])
    /\ moves' = <<>>
    /\ UNCHANGED <<now, numKeys, currentKeyIndex, rateLimitResetTime, markedAt,
                   callers, goodKeys, observed>>

\* a caller invokes makeGeminiRequest(prompt)
StartBot(p) ==
    /\ inv[p].pc \in {"idle", "returned", "threw"}
    /\ toStart > 0
    /\ toStart' = toStart - 1
    /\ enterBot(p)
    /\ UNCHANGED sessVars

\* the request answers with a text: lines 228-230
RespondOkBot(p) ==
    /\ inv[p].pc = "awaiting"
    /\ inv' = [inv EXCEPT ![p] = Returned(inv[p], ReplyText(inv[p].usedKey))]
    /\ Record(p, [hist[p] EXCEPT !.nOk = @ + 1])
    /\ moves' = <<>>
    /\ UNCHANGED <<sessVars, now, keyVars, callers, goodKeys, toStart, observed>>

\* the request answers 429 or 403: lines 235-245
RespondQuotaBot(p) ==
    /\ inv[p].pc = "awaiting"
    /\ \E status \in {"429", "403"} :
        keyUsageStats' = [keyUsageStats EXCEPT
                            ![currentKeyIndex].errors = @ + 1,
                            ![currentKeyIndex].lastError = ErrorMessage(status)]
    /\ currentKeyIndex' = rotateApiKey(currentKeyIndex)
    /\ moves' = Traced(<<rotateApiKey(currentKeyIndex)>>)
    /\ inv' = [inv EXCEPT ![p].pc = "sleeping"]
    /\ Record(p, [hist[p] EXCEPT !.n429 = @ + 1])
    /\ UNCHANGED <<sessVars, now, numKeys, rateLimitResetTime, markedAt,
                   callers, goodKeys, toStart, observed>>

\* the request fails in any other way (400 included): lines 235-238, 247-252
RespondErrorBot(p) ==
    /\ inv[p].pc = "awaiting"
    /\ \E status \in {"400", "other"} :
        /\ keyUsageStats' = [keyUsageStats EXCEPT
                               ![currentKeyIndex].errors = @ + 1,
                               ![currentKeyIndex].lastError = ErrorMessage(status)]
        /\ IF inv[p].attempts = maxRetriesBot - 1
           THEN /\ inv' = [inv EXCEPT ![p] =
                             Threw(inv[p], "All API keys exhausted. Last error: "
                                           \o ErrorMessage(status))]
                /\ moves' = <<>>
                /\ UNCHANGED currentKeyIndex
           ELSE /\ inv' = [inv EXCEPT ![p].pc = "sleeping"]
                /\ currentKeyIndex' = rotateApiKey(currentKeyIndex)
                /\ moves' = Traced(<<rotateApiKey(currentKeyIndex)>>)
        /\ Record(p, IF status = "400" THEN [hist[p] EXCEPT !.n400 = @ + 1]
                     ELSE [hist[p] EXCEPT !.nOther = @ + 1])
    /\ UNCHANGED <<sessVars, now, numKeys, rateLimitResetTime, markedAt,
                   callers, goodKeys, toStart, observed>>

\* the timer fires: attempt++ and the loop test of line 184; when the loop
\* ends the function falls off its end and returns undefined
WakeBot(p) ==
    /\ inv[p].pc = "sleeping"
    /\ IF inv[p].attempts + 1 < maxRetriesBot
       THEN LET r == issueBot([inv[p] EXCEPT !.attempts = @ + 1],
                              keyUsageStats, currentKeyIndex)
            IN  /\ inv' = [inv EXCEPT ![p] = r.f]
                /\ keyUsageStats' = r.stats
                /\ Record(p, [hist[p] EXCEPT !.iters = @ + 1, !.calls = @ + 1])
       ELSE /\ inv' = [inv EXCEPT ![p] = Returned(inv[p], Undefined)]
            /\ UNCHANGED <<keyUsageStats, hist>>
    /\ moves' = <<>>
    /\ UNCHANGED <<sessVars, now, numKeys, currentKeyIndex, rateLimitResetTime,
                   markedAt, callers, goodKeys, toStart, observed>>

NextBot ==
    \/ \E p \in callers : StartBot(p)
    \/ \E p \in callers : RespondOkBot(p)
    \/ \E p \in callers : RespondQuotaBot(p)
    \/ \E p \in callers : RespondErrorBot(p)
    \/ \E p \in callers : WakeBot(p)

(***************************************************************************)
(* The chats of the first program of src/bot.js: the Map userSessions and  *)
(* the handlers of the Telegram events.  A handler runs to its next await  *)
(* in one step; a call of the Telegram API resolves or rejects.            *)
(***************************************************************************)
ChatIds == {1, 2}

\* the idle time after which the sweep drops a session
SessionTimeoutMs == 3600000

\* botMetrics as the module initialises it (the counters the text handlers
\* change)
NoMetrics == [messagesProcessed |-> 0, errorsEncountered |-> 0]

\* the frame of the handler of the 'message' event: where it stands, the
\* message it handles, the calls of the Telegram API it has attempted, the
\* step at which handleTextMessage failed, the language of its notice,
\* once the Map no longer holds the UserSession object its variable session
\* refers to, that object (held is empty while the Map holds it), and the
\* steps handleTextMessage has taken, in their order
IdlePipe ==
    [ pc |-> "idle", chatId |-> 0, text |-> <<>>, sends |-> <<>>,
      failedAt |-> "none", lang |-> "none", held |-> <<>>, events |-> <<>> ]

NoChats ==
    /\ userSessions = <<>>
    /\ pipe = [c \in ChatIds |-> IdlePipe]
    /\ inbox = 0
    /\ botMetrics = NoMetrics

\* a lookup that stores a new UserSession for every chat without one
getOrCreateEvery(store, c, t) ==
    [d \in ChatIds |-> IF d \in DOMAIN store THEN store[d] ELSE UserSessionBot(d, t)]

\* userSessions.get(chatId), a new UserSession stored when there is none
getOrCreate(store, c, t) ==
    IF c \in DOMAIN store THEN store ELSE store @@ (c :> UserSessionBot(c, t))

\* bot.onText(/\/start/): the session is fetched or created, then the
\* welcome message is sent
StartHandler(c) ==
    /\ userSessions' = getOrCreate(userSessions, c, now)
    /\ lastOp' = "start"
    /\ UNCHANGED <<variant, traced, session, added, adds, ret, arg, pinned, pipe,
                   inbox, botMetrics, now, ledgerVars, reqVars>>

\* bot.onText(/\/clear/): the history of a stored session is cleared, then
\* the confirmation is sent
ClearHandler(c) ==
    /\ userSessions' = IF c \in DOMAIN userSessions
                       THEN [userSessions EXCEPT ![c] = clearHistoryBot(@, now)]
                       ELSE userSessions
    /\ lastOp' = "clear"
    /\ UNCHANGED <<variant, traced, session, added, adds, ret, arg, pinned, pipe,
                   inbox, botMetrics, now, ledgerVars, reqVars>>

\* the switch of the callback_query handler up to the await of each case:
\* lines 805-900
callbackCase(s, data, t) ==
    IF data = "lang_en" THEN [s EXCEPT !.preferredLanguage = "en"]
    ELSE IF data = "lang_ar" THEN [s EXCEPT !.preferredLanguage = "ar"]
    ELSE IF data = "lang_fr" THEN [s EXCEPT !.preferredLanguage = "fr"]
    ELSE IF data = "lang_auto" THEN [s EXCEPT !.preferredLanguage = "auto"]
    ELSE IF data = "personality_friendly" THEN [s EXCEPT !.personality = "friendly"]
    ELSE IF data = "personality_professional"
      THEN [s EXCEPT !.personality = "professional"]
    ELSE IF data = "personality_casual" THEN [s EXCEPT !.personality = "casual"]
    ELSE IF data = "personality_technical" THEN [s EXCEPT !.personality = "technical"]
    ELSE IF data = "clear_history" THEN clearHistoryBot(s, t)
    ELSE s

\* the callback data of the buttons pressed
CallbackData ==
    {"lang_en", "lang_auto", "personality_casual", "clear_history", "my_stats"}

\* bot.on('callback_query') once answerCallbackQuery has resolved: the
\* session is fetched or created and the case of the data runs to its await
CallbackHandler(c, data) ==
    /\ userSessions' =
           [getOrCreate(userSessions, c, now) EXCEPT ![c] = callbackCase(@, data, now)]
    /\ lastOp' = "callback"
    /\ UNCHANGED <<variant, traced, session, added, adds, ret, arg, pinned, pipe,
                   inbox, botMetrics, now, ledgerVars, reqVars>>

\* a sweep that also drops the sessions idle for exactly the timeout
sweepSessionsAtTimeout(store, t) ==
    [c \in {d \in DOMAIN store : t - store[d].lastActivity < SessionTimeoutMs}
        |-> store[c]]

\* the body of the setInterval callback: every session idle for more than
\* the timeout is deleted
sweepSessions(store, t) ==
    [c \in {d \in DOMAIN store : ~(t - store[d].lastActivity > SessionTimeoutMs)}
        |-> store[c]]

Sweep ==
    /\ userSessions' = sweepSessions(userSessions, now)
    /\ lastOp' = "sweep"
    /\ UNCHANGED <<variant, traced, session, added, adds, ret, arg, pinned, pipe,
                   inbox, botMetrics, now, ledgerVars, reqVars>>

\* the instants next to the multiples of the timeout
StoreTimes ==
    { t \in { k * SessionTimeoutMs + j : k \in 0..ClockPeriods, j \in {-1, 0, 1} } :
        t >= 0 }

TickStore ==
    /\ \E t \in StoreTimes : t > now /\ now' = t
    /\ lastOp' = "tick"
    /\ UNCHANGED <<variant, traced, session, added, adds, ret, arg, pinned,
                   chatVars, ledgerVars, reqVars>>

NextStore ==
    \/ \E c \in ChatIds : StartHandler(c)
    \/ \E c \in ChatIds : ClearHandler(c)
    \/ \E c \in ChatIds, data \in CallbackData : CallbackHandler(c, data)
    \/ Sweep
    \/ TickStore

(***************************************************************************)
(* The handler of the 'message' event and handleTextMessage.               *)
(***************************************************************************)
\* a test that takes the lone '/' for a command too
isCommandAnySlash(text) == Len(text) > 0 /\ text[1] = 47

isCommand(text) == Len(text) > 0 /\ text[1] = 47 /\ Len(text) > 1

\* lines 349-354
creatorQueries ==
    << <<119, 104, 111, 32, 109, 97, 100, 101, 32, 121, 111, 117>>,
       <<119, 104, 111, 32, 99, 114, 101, 97, 116, 101, 100, 32, 121, 111,
         117>>,
       <<121, 111, 117, 114, 32, 99, 114, 101, 97, 116, 111, 114>>,
       <<100, 101, 118, 101, 108, 111, 112, 101, 114>>,
       <<119, 104, 111, 32, 98, 117, 105, 108, 116, 32, 121, 111, 117>>,
       <<121, 111, 117, 114, 32, 109, 97, 107, 101, 114>>,
       <<119, 104, 111, 32, 112, 114, 111, 103, 114, 97, 109, 109, 101, 100,
         32, 121, 111, 117>>,
       <<119, 104, 111, 32, 100, 101, 115, 105, 103, 110, 101, 100, 32, 121,
         111, 117>>,
       <<99, 114, 101, 97, 116, 111, 114, 32, 99, 111, 110, 116, 97, 99, 116>>,
       <<1605, 1606, 32, 1589, 1606, 1593, 1603>>,
       <<1605, 1606, 32, 1593, 1605, 1604, 1603>>,
       <<1588, 1603, 1608, 1606, 32, 1589, 1606, 1593, 1603>>,
       <<1605, 1591, 1608, 1585, 1603>>,
       <<1605, 1606, 32, 1576, 1606, 1575, 1603>>,
       <<1605, 1606, 32, 1576, 1585, 1605, 1580, 1603>>,
       <<1605, 1606, 1608, 32, 1593, 1605, 1604, 1603>>,
       <<113, 117, 105, 32, 116, 39, 97, 32, 99, 114, 233, 233>>,
       <<113, 117, 105, 32, 116, 39, 97, 32, 102, 97, 105, 116>>,
       <<116, 111, 110, 32, 99, 114, 233, 97, 116, 101, 117, 114>>,
       <<100, 233, 118, 101, 108, 111, 112, 112, 101, 117, 114>>,
       <<113, 117, 105, 32, 116, 39, 97, 32, 112, 114, 111, 103, 114, 97,
         109, 109, 233>> >>

\* lines 357-361: the reply in that language, the English one for a
\* language without an entry
creatorResponses(lang) ==
    IF lang = "ar" THEN
        <<55357, 56424, 8205, 55357, 56507, 32, 42, 42, 1578, 1605, 32,
          1573, 1606, 1588, 1575, 1574, 1610, 32, 1605, 1606, 32, 1602,
          1576, 1604, 32, 1593, 1576, 1583, 1608, 42, 42, 33, 32, 55356,
          56809, 55356, 56831, 10, 10, 32, 1610, 1605, 1603, 1606, 1603, 32,
          1575, 1604, 1578, 1608, 1575, 1589, 1604, 32, 1605, 1593, 1607,
          32, 1605, 1576, 1575, 1588, 1585, 1577, 32, 1605, 1606, 32, 1582,
          1604, 1575, 1604, 32, 1575, 1604, 1585, 1608, 1575, 1576, 1591,
          32, 1571, 1583, 1606, 1575, 1607, 32, 55357, 56960, 10, 10, 1610,
          1587, 1593, 1583, 1606, 1610, 32, 1571, 1606, 32, 1571, 1603,
          1608, 1606, 32, 1605, 1587, 1575, 1593, 1583, 1603, 32, 1575,
          1604, 1584, 1603, 1610, 33, 32, 55357, 56842>>
    ELSE IF lang = "fr" THEN
        <<55357, 56424, 8205, 55357, 56507, 32, 42, 42, 74, 39, 97, 105, 32,
          233, 116, 233, 32, 99, 114, 233, 233, 32, 112, 97, 114, 32, 65,
          98, 100, 111, 117, 42, 42, 33, 32, 55356, 56809, 55356, 56831, 10,
          10, 32, 86, 111, 117, 115, 32, 112, 111, 117, 118, 101, 122, 32,
          108, 101, 32, 99, 111, 110, 116, 97, 99, 116, 101, 114, 32, 100,
          105, 114, 101, 99, 116, 101, 109, 101, 110, 116, 32, 118, 105, 97,
          32, 108, 101, 115, 32, 108, 105, 101, 110, 115, 32, 99, 105, 45,
          100, 101, 115, 115, 111, 117, 115, 33, 32, 55357, 56960, 10, 10,
          74, 101, 32, 115, 117, 105, 115, 32, 104, 101, 117, 114, 101, 117,
          120, 32, 100, 39, 234, 116, 114, 101, 32, 118, 111, 116, 114, 101,
          32, 97, 115, 115, 105, 115, 116, 97, 110, 116, 32, 105, 110, 116,
          101, 108, 108, 105, 103, 101, 110, 116, 33, 32, 55357, 56842>>
    ELSE
        <<55357, 56424, 8205, 55357, 56507, 32, 42, 42, 73, 32, 119, 97,
          115, 32, 99, 114, 101, 97, 116, 101, 100, 32, 98, 121, 32, 65, 98,
          100, 111, 117, 42, 42, 33, 32, 55356, 56809, 55356, 56831, 10, 10,
          32, 89, 111, 117, 32, 99, 97, 110, 32, 114, 101, 97, 99, 104, 32,
          111, 117, 116, 32, 116, 111, 32, 104, 105, 109, 32, 100, 105, 114,
          101, 99, 116, 108, 121, 32, 116, 104, 114, 111, 117, 103, 104, 32,
          116, 104, 101, 32, 108, 105, 110, 107, 115, 32, 98, 101, 108, 111,
          119, 33, 32, 55357, 56960, 10, 10, 73, 39, 109, 32, 104, 97, 112,
          112, 121, 32, 116, 111, 32, 98, 101, 32, 121, 111, 117, 114, 32,
          105, 110, 116, 101, 108, 108, 105, 103, 101, 110, 116, 32, 97,
          115, 115, 105, 115, 116, 97, 110, 116, 33, 32, 55357, 56842>>

isCreatorQuery(messageText) ==
    \E i \in 1..Len(creatorQueries) :
        includes(toLowerCase(messageText), creatorQueries[i])

\* the white space and the line terminators String.prototype.trim removes
IsSpace(c) ==
    c \in {9, 10, 11, 12, 13, 32, 160, 5760, 8232, 8233, 8239, 8287, 12288, 65279}
          \cup 8192..8202

RECURSIVE trimStart(_)
trimStart(text) ==
    IF Len(text) > 0 /\ IsSpace(text[1]) THEN trimStart(Tail(text)) ELSE text

RECURSIVE trimEnd(_)
trimEnd(text) ==
    IF Len(text) > 0 /\ IsSpace(text[Len(text)])
    THEN trimEnd(SubSeq(text, 1, Len(text) - 1))
    ELSE text

trim(text) == trimEnd(trimStart(text))

Settled == {"idle", "done", "rejected"}

\* no handler of a 'message' event is pending
Quiet == \A c \in ChatIds : pipe[c].pc \in Settled

\* the frames once the handler of a message of chat c stands at f: the
\* frames of the handlers that have ended are gone
Frames(c, f) ==
    [d \in ChatIds |->
        IF d = c THEN f ELSE IF pipe[d].pc \in Settled THEN IdlePipe ELSE pipe[d]]

\* a catch block that only logs the error
catchTextLogOnly(f, store, step) ==
    [f EXCEPT !.pc = "done", !.failedAt = step]

\* the catch block of handleTextMessage up to its await: the language of the
\* notice is detected when the chat has a session, then the notice is sent
catchText(f, store, step) ==
    [f EXCEPT !.pc = "fallbackSend",
              !.failedAt = step,
              !.sends = Append(@, "fallback"),
              !.lang = IF f.chatId \in DOMAIN store
                       THEN detectLanguageBot(f.text) ELSE "en"]

\* a text message of chat c arrives and the handler frame h is free for it:
\* handleTextMessage up to its first await
handleTextMessage(h, c, text) ==
    /\ pipe[h].pc \in Settled
    /\ inbox > 0
    /\ inbox' = inbox - 1
    /\ UNCHANGED botMetrics
    /\ LET f == [IdlePipe EXCEPT !.chatId = c, !.text = text]
       IN  IF isCommand(text)
           THEN /\ pipe' = Frames(h, [f EXCEPT !.pc = "done"])
                /\ UNCHANGED userSessions
           ELSE LET store == getOrCreate(userSessions, c, now)
                    s == addMessageBot(updateInterests(store[c], text),
                                       User, text, now)
                IN  /\ userSessions' = [store EXCEPT ![c] = s]
                    /\ pipe' = Frames(h,
                           IF isCreatorQuery(text)
                           THEN [f EXCEPT !.pc = "creatorSend",
                                          !.sends = <<"creator">>,
                                          !.events = <<"session", "user", "creator">>,
                                          !.lang = detectLanguageBot(text)]
                           ELSE [f EXCEPT !.pc = "typing",
                                          !.sends = <<"typing">>,
                                          !.events = <<"session", "user", "prompt",
                                                       "typing">>])
    /\ UNCHANGED <<objVars, now, ledgerVars, reqVars>>

\* a text message of chat c arrives, handled in the frame of that chat
ReceiveText(c, text) == handleTextMessage(c, c, text)

\* a photo, document, audio or video arrives: lines 433-438
ReceiveMedia(c) ==
    /\ pipe[c].pc \in Settled
    /\ inbox > 0
    /\ inbox' = inbox - 1
    /\ UNCHANGED botMetrics
    /\ pipe' = Frames(c, [IdlePipe EXCEPT !.pc = "notSupportedSend", !.chatId = c,
                                          !.sends = <<"notSupported">>])
    /\ UNCHANGED <<objVars, userSessions, now, ledgerVars, reqVars>>

\* sendChatAction resolves: makeGeminiRequest(prompt) is called
TypingOk(c) ==
    /\ pipe[c].pc = "typing"
    /\ enterBot(c)
    /\ pipe' = [pipe EXCEPT ![c].pc = "upstream",
                            ![c].events = Append(@, "upstream")]
    /\ UNCHANGED <<objVars, userSessions, inbox, botMetrics, toStart>>

\* sendChatAction rejects
TypingFail(c) ==
    /\ pipe[c].pc = "typing"
    /\ pipe' = [pipe EXCEPT ![c] = catchText(@, userSessions, "typing")]
    /\ UNCHANGED <<objVars, userSessions, inbox, botMetrics, now, ledgerVars, reqVars>>

\* the reply is sent before the assistant entry is appended
upstreamReturnedSendFirst(f, store, response, t) ==
    [ store |-> store,
      f |-> [f EXCEPT !.pc = "replySend",
                      !.sends = Append(@, "reply"),
                      !.events = @ \o <<"reply", "assistant">>] ]

\* lines 393-399: the reply is trimmed and appended to the history, then it
\* is sent
upstreamReturned(f, store, response, t) ==
    [ store |-> [store EXCEPT ![f.chatId] =
                    addMessageBot(@, Assistant, trim(response), t)],
      f |-> [f EXCEPT !.pc = "replySend",
                      !.sends = Append(@, "reply"),
                      !.events = @ \o <<"assistant", "reply">>] ]

\* makeGeminiRequest settles: lines 393-399 when it returned a string (trim
\* of undefined throws a TypeError), the catch block otherwise
UpstreamDone(c) ==
    /\ pipe[c].pc = "upstream"
    /\ inv[c].pc \in {"returned", "threw"}
    /\ IF inv[c].pc = "returned" /\ inv[c].result # Undefined
       THEN LET r == upstreamReturned(pipe[c], userSessions, inv[c].result, now)
            IN  /\ userSessions' = r.store
                /\ pipe' = [pipe EXCEPT ![c] = r.f]
       ELSE /\ pipe' = [pipe EXCEPT ![c] =
                          catchText(@, userSessions,
                                    IF inv[c].pc = "threw" THEN "upstream"
                                    ELSE "trim")]
            /\ UNCHANGED userSessions
    /\ inv' = [inv EXCEPT ![c] = IdleInvocation]
    /\ UNCHANGED <<objVars, inbox, botMetrics, now, ledgerVars, callers, goodKeys, toStart,
                   observed, hist>>

\* the pending sendMessage resolves
SendOk(c) ==
    /\ pipe[c].pc \in {"creatorSend", "replySend", "fallbackSend", "outerSend",
                       "notSupportedSend"}
    /\ userSessions' =
           IF pipe[c].pc = "creatorSend"
           THEN [userSessions EXCEPT ![pipe[c].chatId] =
                    addMessageBot(@, Assistant, creatorResponses(pipe[c].lang), now)]
           ELSE userSessions
    /\ pipe' = [pipe EXCEPT ![c].pc = "done"]
    /\ UNCHANGED <<objVars, inbox, botMetrics, now, ledgerVars, reqVars>>

\* the pending sendMessage rejects: inside the try of handleTextMessage its
\* catch block runs; the rejection of the notice of that catch block, or of
\* the notice for a media message, reaches the catch block of the 'message'
\* handler, whose own send is not guarded
SendFail(c) ==
    /\ pipe[c].pc \in {"creatorSend", "replySend", "fallbackSend", "outerSend",
                       "notSupportedSend"}
    /\ pipe' = [pipe EXCEPT ![c] =
                  IF pipe[c].pc = "creatorSend"
                     THEN catchText(@, userSessions, "creatorSend")
                  ELSE IF pipe[c].pc = "replySend"
                     THEN catchText(@, userSessions, "replySend")
                  ELSE IF pipe[c].pc \in {"fallbackSend", "notSupportedSend"}
                     THEN [@ EXCEPT !.pc = "outerSend",
                                    !.sends = Append(@, "outer")]
                  ELSE [@ EXCEPT !.pc = "rejected"]]
    /\ UNCHANGED <<objVars, userSessions, inbox, botMetrics, now, ledgerVars, reqVars>>

\* the texts of the messages
PipeTexts ==
    { <<104, 101, 108, 108, 111>>,
      <<47, 104, 101, 108, 112>>,
      <<47>>,
      <<87, 104, 111, 32, 109, 97, 100, 101, 32, 121, 111, 117, 63>>,
      <<1605, 1585, 1581, 1576, 1575>> }

\* the steps of the handlers that are pending
StepChat ==
    \/ \E c \in ChatIds : TypingOk(c)
    \/ \E c \in ChatIds : TypingFail(c)
    \/ \E c \in ChatIds : RespondOkBot(c)
    \/ \E c \in ChatIds : RespondQuotaBot(c)
    \/ \E c \in ChatIds : RespondErrorBot(c)
    \/ \E c \in ChatIds : WakeBot(c)
    \/ \E c \in ChatIds : UpstreamDone(c)
    \/ \E c \in ChatIds : SendOk(c)
    \/ \E c \in ChatIds : SendFail(c)

\* a message arrives once the handler of the one before it has ended
NextChat ==
    \/ \E c \in ChatIds, text \in PipeTexts : Quiet /\ ReceiveText(c, text)
    \/ \E c \in ChatIds : Quiet /\ ReceiveMedia(c)
    \/ StepChat

\* the texts of the messages of chats that write at the same time
PairTexts ==
    { <<104, 101, 108, 108, 111>>,
      <<87, 104, 111, 32, 109, 97, 100, 101, 32, 121, 111, 117, 63>> }

\* a message arrives at any time
NextPair ==
    \/ \E c \in ChatIds, text \in PairTexts : ReceiveText(c, text)
    \/ StepChat

\* the texts of the messages one chat sends in a row
SameTexts ==
    { <<104, 101, 108, 108, 111>>,
      <<87, 104, 111, 32, 109, 97, 100, 101, 32, 121, 111, 117, 63>> }

\* the chat whose messages arrive in a row
SameChat == 1

\* a message of the one chat arrives at any time: its handler starts while
\* the handler of the message before it is pending
NextSame ==
    \/ \E h \in ChatIds, text \in SameTexts : handleTextMessage(h, SameChat, text)
    \/ StepChat

(***************************************************************************)
(* The chats of src/unnamed/part_000: the Map userSessions under the       *)
(* handler of the 'message' event and the handler of /start.  Both         *)
(* handlers are called for a message whose text matches /\/start/, the     *)
(* 'message' handler first; each runs to its first await before anything   *)
(* else happens.                                                           *)
(***************************************************************************)
StartText == <<47, 115, 116, 97, 114, 116>>
ToggleLongText == <<47, 116, 111, 103, 103, 108, 101, 95, 108, 111, 110, 103>>
ToggleEmojisText == <<47, 116, 111, 103, 103, 108, 101, 95, 101, 109, 111, 106, 105, 115>>
ToggleFormalText == <<47, 116, 111, 103, 103, 108, 101, 95, 102, 111, 114, 109, 97, 108>>
SettingsText == <<47, 115, 101, 116, 116, 105, 110, 103, 115>>
SettingsTextAr == <<1573, 1593, 1583, 1575, 1583, 1575, 1578>>
StatsText == <<47, 115, 116, 97, 116, 115>>
StatsTextAr == <<1573, 1581, 1589, 1575, 1574, 1610, 1575, 1578>>

\* lines 254-259
getOrCreate000(store, c, t) ==
    IF c \in DOMAIN store THEN store ELSE store @@ (c :> UserSession000(c, t))

\* handleSpecialCommands up to its await or return: the session after it and
\* whether it handled the message
handleSpecialCommands(s, messageText) ==
    LET command == trim(toLowerCase(messageText))
    IN  IF command = ToggleLongText
          THEN [ session |-> [s EXCEPT !.preferences.longResponses = ~@],
                 handled |-> TRUE ]
        ELSE IF command = ToggleEmojisText
          THEN [ session |-> [s EXCEPT !.preferences.includeEmojis = ~@],
                 handled |-> TRUE ]
        ELSE IF command = ToggleFormalText
          THEN [ session |-> [s EXCEPT !.preferences.formalTone = ~@],
                 handled |-> TRUE ]
        ELSE [ session |-> s,
               handled |-> command \in {SettingsText, SettingsTextAr,
                                        StatsText, StatsTextAr} ]

\* a /start handler that keeps a stored session
startHandlerKeep000(store, c, t) == getOrCreate000(store, c, t)

\* the handler of /start up to its await: lines 596-601
startHandler000(store, c, t) ==
    [d \in DOMAIN store \cup {c} |->
        IF d = c THEN UserSession000(c, t) ELSE store[d]]

\* the frames once the Map holds another object for chat c than the object
\* orphan it held: a pending handler of that chat whose variable session
\* referred to the stored object now refers to an object out of the Map
Orphaned(frames, c, orphan) ==
    [d \in DOMAIN frames |->
        IF /\ frames[d].pc \notin Settled
           /\ frames[d].chatId = c
           /\ frames[d].held = <<>>
        THEN [frames[d] EXCEPT !.held = <<orphan>>]
        ELSE frames[d]]

\* a text message of chat c arrives and the handler frame h is free for it:
\* handleTextMessage up to its first await and, for a text that matches
\* /\/start/, the handler of /start up to its await
message000(h, c, text) ==
    /\ pipe[h].pc \in Settled
    /\ inbox > 0
    /\ inbox' = inbox - 1
    /\ botMetrics' = [botMetrics EXCEPT !.messagesProcessed = @ + 1]
    /\ LET store == getOrCreate000(userSessions, c, now)
           r == handleSpecialCommands(addMessage000(store[c], User, text, now),
                                      text)
           after == [store EXCEPT ![c] = r.session]
           f == [IdlePipe EXCEPT !.chatId = c, !.text = text,
                                 !.pc = IF r.handled THEN "specialSend"
                                        ELSE "answering"]
       IN  IF includes(text, StartText)
           THEN /\ userSessions' = startHandler000(after, c, now)
                /\ pipe' = IF startHandler000(after, c, now)[c] = after[c]
                            THEN Frames(h, f)
                            ELSE Orphaned(Frames(h, f), c, after[c])
                /\ lastOp' = "start"
           ELSE /\ userSessions' = after
                /\ pipe' = Frames(h, f)
                /\ lastOp' = "text"
    /\ arg' = <<c>>
    /\ UNCHANGED <<variant, traced, session, added, adds, ret, pinned, now,
                   ledgerVars, reqVars>>

\* a text message of chat c arrives once the handlers before it have ended
Text000(c, text) == Quiet /\ message000(c, c, text)

\* session.addMessage('assistant', response) of line 302: the entry goes to
\* the object the handler refers to, the stored one or the one it holds
appendReply000(f, store, response, t) ==
    IF f.held = <<>>
    THEN [ store |-> [store EXCEPT ![f.chatId] =
                         addMessage000(@, Assistant, response, t)],
           f |-> f ]
    ELSE [ store |-> store,
           f |-> [f EXCEPT !.held = <<addMessage000(f.held[1], Assistant,
                                                      response, t)>>] ]

\* the handler ends without a failure: makeGeminiRequest returned a text,
\* which is appended to the session (line 302) and sent, or the answer to a
\* special command was sent
Finish000(c) ==
    /\ pipe[c].pc \in {"specialSend", "answering"}
    /\ IF pipe[c].pc = "answering"
       THEN \E k \in KeyIndexes :
               LET r == appendReply000(pipe[c], userSessions, ReplyText(k), now)
               IN  /\ userSessions' = r.store
                   /\ pipe' = [pipe EXCEPT ![c] = [r.f EXCEPT !.pc = "done"]]
       ELSE /\ pipe' = [pipe EXCEPT ![c].pc = "done"]
            /\ UNCHANGED userSessions
    /\ lastOp' = "finish"
    /\ UNCHANGED <<variant, traced, session, added, adds, ret, arg, pinned, inbox,
                   botMetrics, now, ledgerVars, reqVars>>

\* the steps at which the try block of handleTextMessage can fail, by where
\* the handler stands
FailSteps000(f) ==
    IF f.pc = "specialSend" THEN {"specialSend"}
    ELSE {"typing", "upstream", "replySend"}

\* the catch block of handleTextMessage: the error is counted (line 312),
\* then line 314 reads session, a variable declared inside the try block
\* and out of scope here, which throws a ReferenceError before anything is
\* sent; yields the counters when the block is left
catchText000(metrics) ==
    [metrics EXCEPT !.errorsEncountered = @ + 1]

\* the catch block of the 'message' handler up to its await: lines 584-586
catchMessage000(metrics) ==
    [metrics EXCEPT !.errorsEncountered = @ + 1]

\* an await of the try block rejects (sendChatAction, makeGeminiRequest
\* throwing, a sendMessage; the reply is in the history when its send
\* fails): the catch block of handleTextMessage runs, the ReferenceError
\* it throws reaches the catch block of the 'message' handler, which sends
\* its notice
Fail000(c) ==
    /\ pipe[c].pc \in {"specialSend", "answering"}
    /\ \E step \in FailSteps000(pipe[c]), k \in KeyIndexes :
        LET r == IF step = "replySend"
                 THEN appendReply000(pipe[c], userSessions, ReplyText(k), now)
                 ELSE [store |-> userSessions, f |-> pipe[c]]
        IN  /\ userSessions' = r.store
            /\ pipe' = [pipe EXCEPT ![c] = [r.f EXCEPT !.failedAt = step,
                                                       !.pc = "outerSend",
                                                       !.sends = <<"outer">>]]
    /\ botMetrics' = catchMessage000(catchText000(botMetrics))
    /\ lastOp' = "fail"
    /\ UNCHANGED <<variant, traced, session, added, adds, ret, arg, pinned, inbox,
                   now, ledgerVars, reqVars>>

\* the notice sent by the catch block of the 'message' handler resolves, or
\* it rejects and the rejection leaves the handler
Notice000(c) ==
    /\ pipe[c].pc = "outerSend"
    /\ \E outcome \in {"done", "rejected"} :
        pipe' = [pipe EXCEPT ![c].pc = outcome]
    /\ lastOp' = "notice"
    /\ UNCHANGED <<variant, traced, session, added, adds, ret, arg, pinned,
                   userSessions, inbox, botMetrics, now, ledgerVars, reqVars>>

\* the texts of the messages
Texts000 ==
    { <<104, 101, 108, 108, 111>>, StartText, ToggleLongText }

NextStart000 ==
    \/ \E c \in ChatIds, text \in Texts000 : Text000(c, text)
    \/ \E c \in ChatIds : Finish000(c)
    \/ \E c \in ChatIds : Fail000(c)
    \/ \E c \in ChatIds : Notice000(c)

\* a message of the one chat arrives at any time, /start among them
NextStartSame ==
    \/ \E h \in ChatIds, text \in Texts000 : message000(h, SameChat, text)
    \/ \E h \in ChatIds : Finish000(h)
    \/ \E h \in ChatIds : Fail000(h)
    \/ \E h \in ChatIds : Notice000(h)

(***************************************************************************)
(* src/unnamed/part_003: makeGeminiRequest (lines 112-154), whose ledger   *)
(* is the cursor alone, and handleTextMessage (lines 191-255).  The frames *)
(* of the handlers and of the invocations are the records of the first     *)
(* program; attempts holds the loop variable attempt.                      *)
(***************************************************************************)
\* const maxRetries = GEMINI_KEYS.length
maxRetries003 == numKeys

\* text.startsWith('/')
isCommand003(text) == Len(text) > 0 /\ text[1] = 47

\* lines 209-212
creatorQueries003 ==
    << <<119, 104, 111, 32, 109, 97, 100, 101, 32, 121, 111, 117>>,
       <<119, 104, 111, 32, 99, 114, 101, 97, 116, 101, 100, 32, 121,
         111, 117>>,
       <<121, 111, 117, 114, 32, 99, 114, 101, 97, 116, 111, 114>>,
       <<100, 101, 118, 101, 108, 111, 112, 101, 114>>,
       <<1605, 1606, 32, 1589, 1606, 1593, 1603>>,
       <<1605, 1606, 32, 1593, 1605, 1604, 1603>>,
       <<1588, 1603, 1608, 1606, 32, 1589, 1606, 1593, 1603>>,
       <<1605, 1591, 1608, 1585, 1603>> >>

isCreatorQuery003(messageText) ==
    \E i \in 1..Len(creatorQueries003) :
        includes(toLowerCase(messageText), creatorQueries003[i])

\* lines 199-203
getOrCreate003(store, c, t) ==
    IF c \in DOMAIN store THEN store ELSE store @@ (c :> UserSession003(c, t))

\* the catch block of handleTextMessage up to its await
catchText003(f, step) ==
    [f EXCEPT !.pc = "fallbackSend",
              !.failedAt = step,
              !.sends = Append(@, "fallback")]

\* a text message of chat c arrives: handleTextMessage up to its first await
Receive003(c, text) ==
    /\ Quiet
    /\ inbox > 0
    /\ inbox' = inbox - 1
    /\ UNCHANGED botMetrics
    /\ LET f == [IdlePipe EXCEPT !.chatId = c, !.text = text]
       IN  IF isCommand003(text)
           THEN /\ pipe' = Frames(c, [f EXCEPT !.pc = "done"])
                /\ UNCHANGED userSessions
           ELSE LET store == getOrCreate003(userSessions, c, now)
                IN  /\ userSessions' =
                           [store EXCEPT ![c] = addMessage003(@, User, text, now)]
                    /\ pipe' = Frames(c,
                           IF isCreatorQuery003(text)
                           THEN [f EXCEPT !.pc = "creatorSend",
                                          !.sends = <<"creator">>]
                           ELSE [f EXCEPT !.pc = "typing",
                                          !.sends = <<"typing">>])
    /\ UNCHANGED <<objVars, now, ledgerVars, reqVars>>

\* sendChatAction resolves: makeGeminiRequest(prompt) is called and issues
\* its first request with the key under the cursor
Typing003Ok(c) ==
    /\ pipe[c].pc = "typing"
    /\ pipe' = [pipe EXCEPT ![c].pc = "upstream"]
    /\ inv' = [inv EXCEPT ![c] = [IdleInvocation EXCEPT !.pc = "awaiting",
                                                       !.usedKey = currentKeyIndex]]
    /\ moves' = <<>>
    /\ UNCHANGED <<objVars, userSessions, inbox, botMetrics, now, keyVars, callers, goodKeys,
                   toStart, observed, hist>>

\* sendChatAction rejects
Typing003Fail(c) ==
    /\ pipe[c].pc = "typing"
    /\ pipe' = [pipe EXCEPT ![c] = catchText003(@, "typing")]
    /\ UNCHANGED <<objVars, userSessions, inbox, botMetrics, now, ledgerVars, reqVars>>

\* the request is answered with a text: lines 132-134
RespondOk003(c) ==
    /\ inv[c].pc = "awaiting"
    /\ inv' = [inv EXCEPT ![c] = Returned(inv[c], ReplyText(inv[c].usedKey))]
    /\ moves' = <<>>
    /\ UNCHANGED <<sessVars, now, keyVars, callers, goodKeys, toStart, observed,
                   hist>>

\* the request is answered 429: lines 141-145, then attempt++ and the loop
\* test; when the loop ends the function falls off its end and returns
\* undefined
Respond429003(c) ==
    /\ inv[c].pc = "awaiting"
    /\ currentKeyIndex' = rotateApiKey(currentKeyIndex)
    /\ moves' = Traced(<<rotateApiKey(currentKeyIndex)>>)
    /\ inv' = [inv EXCEPT ![c] =
                  IF inv[c].attempts + 1 < maxRetries003
                  THEN [@ EXCEPT !.attempts = @ + 1,
                                 !.usedKey = rotateApiKey(currentKeyIndex)]
                  ELSE Returned(@, Undefined)]
    /\ UNCHANGED <<sessVars, now, numKeys, rateLimitResetTime, markedAt,
                   keyUsageStats, callers, goodKeys, toStart, observed, hist>>

\* the request fails in any other way: lines 147-151
RespondError003(c) ==
    /\ inv[c].pc = "awaiting"
    /\ \E status \in {"400", "other"} :
        IF inv[c].attempts = maxRetries003 - 1
        THEN /\ inv' = [inv EXCEPT ![c] = Threw(@, ErrorMessage(status))]
             /\ moves' = <<>>
             /\ UNCHANGED currentKeyIndex
        ELSE /\ currentKeyIndex' = rotateApiKey(currentKeyIndex)
             /\ moves' = Traced(<<rotateApiKey(currentKeyIndex)>>)
             /\ inv' = [inv EXCEPT ![c].attempts = @ + 1,
                                   ![c].usedKey = rotateApiKey(currentKeyIndex)]
    /\ UNCHANGED <<sessVars, now, numKeys, rateLimitResetTime, markedAt,
                   keyUsageStats, callers, goodKeys, toStart, observed, hist>>

\* makeGeminiRequest settles: lines 239-247 when it returned (whatever the
\* value), the catch block when it threw
UpstreamDone003(c) ==
    /\ pipe[c].pc = "upstream"
    /\ inv[c].pc \in {"returned", "threw"}
    /\ IF inv[c].pc = "returned"
       THEN /\ userSessions' =
                   [userSessions EXCEPT ![pipe[c].chatId] =
                       addMessage003(@, Assistant, inv[c].result, now)]
            /\ pipe' = [pipe EXCEPT ![c].pc = "replySend",
                                    ![c].sends = Append(@, "reply")]
       ELSE /\ pipe' = [pipe EXCEPT ![c] = catchText003(@, "upstream")]
            /\ UNCHANGED userSessions
    /\ inv' = [inv EXCEPT ![c] = IdleInvocation]
    /\ UNCHANGED <<objVars, inbox, botMetrics, now, ledgerVars, callers, goodKeys, toStart,
                   observed, hist>>

\* the pending sendMessage resolves
SendOk003(c) ==
    /\ pipe[c].pc \in {"creatorSend", "replySend", "fallbackSend", "outerSend"}
    /\ pipe' = [pipe EXCEPT ![c].pc = "done"]
    /\ UNCHANGED <<objVars, userSessions, inbox, botMetrics, now, ledgerVars, reqVars>>

\* the pending sendMessage rejects (as it does for a text that is
\* undefined): the catch block of handleTextMessage, then the one of the
\* 'message' handler, whose own send is not guarded
SendFail003(c) ==
    /\ pipe[c].pc \in {"creatorSend", "replySend", "fallbackSend", "outerSend"}
    /\ pipe' = [pipe EXCEPT ![c] =
                  IF pipe[c].pc = "creatorSend"
                     THEN catchText003(@, "creatorSend")
                  ELSE IF pipe[c].pc = "replySend"
                     THEN catchText003(@, "replySend")
                  ELSE IF pipe[c].pc = "fallbackSend"
                     THEN [@ EXCEPT !.pc = "outerSend",
                                    !.sends = Append(@, "outer")]
                  ELSE [@ EXCEPT !.pc = "rejected"]]
    /\ UNCHANGED <<objVars, userSessions, inbox, botMetrics, now, ledgerVars, reqVars>>

Next003 ==
    \/ \E c \in ChatIds, text \in PipeTexts : Receive003(c, text)
    \/ \E c \in ChatIds : Typing003Ok(c)
    \/ \E c \in ChatIds : Typing003Fail(c)
    \/ \E c \in ChatIds : RespondOk003(c)
    \/ \E c \in ChatIds : Respond429003(c)
    \/ \E c \in ChatIds : RespondError003(c)
    \/ \E c \in ChatIds : UpstreamDone003(c)
    \/ \E c \in ChatIds : SendOk003(c)
    \/ \E c \in ChatIds : SendFail003(c)

(***************************************************************************)
(* Initial states and specifications.                                      *)
(***************************************************************************)
InitLedger(keys) ==
    /\ numKeys \in keys
    /\ currentKeyIndex = 0
    /\ moves = <<>>
    /\ rateLimitResetTime = [k \in 0..(numKeys - 1) |-> 0]
    /\ markedAt = [k \in 0..(numKeys - 1) |-> -1]
    /\ keyUsageStats = [k \in 0..(numKeys - 1) |->
                           [requests |-> 0, errors |-> 0, lastError |-> "null"]]

InitRequests(ps, obs, n) ==
    /\ callers = ps
    /\ goodKeys = {}
    /\ toStart = n
    /\ inv = [p \in ps |-> IdleInvocation]
    /\ observed = obs
    /\ hist = [p \in ps |-> NoHistory]

\* one UserSession of any of the three programs, its methods called in any
\* order; the ledger stays as the module initialises it
Init ==
    /\ InitSession
    /\ traced = FALSE
    /\ NoChats
    /\ now = 0
    /\ InitLedger({1})
    /\ InitRequests({}, {}, 0)

Next == NextSession

Spec == Init /\ [][Next]_vars

\* one UserSession of the first or of the third program of src/bot.js, its
\* language and interest operations called in any order, next to the stored
\* session of another chat
InitLang ==
    /\ \E v \in {"bot", "sticky"} : InitSessionOf(v)
    /\ traced = FALSE
    /\ userSessions = (2 :> NewSession(variant, 0))
    /\ pipe = [c \in ChatIds |-> IdlePipe]
    /\ inbox = 0
    /\ botMetrics = NoMetrics
    /\ now = 0
    /\ InitLedger({1})
    /\ InitRequests({}, {}, 0)

SpecLang == InitLang /\ [][NextLang]_vars

\* part_000: one caller of makeGeminiRequest at a time
Init000 ==
    /\ InitSessionOf("p000")
    /\ traced = FALSE
    /\ NoChats
    /\ now = 0
    /\ InitLedger(1..MaxKeys)
    /\ InitRequests({1}, {1}, MaxInvocations)

Spec000 == Init000 /\ [][Next000]_vars

\* part_000: two callers, one invocation each, interleaving at every await
Init000Conc ==
    /\ InitSessionOf("p000")
    /\ traced = FALSE
    /\ NoChats
    /\ now = 0
    /\ InitLedger(1..MaxKeys)
    /\ InitRequests({1, 2}, {}, 2)

Spec000Conc == Init000Conc /\ [][Next000]_vars

\* src/bot.js, first program: one caller of makeGeminiRequest at a time
InitBot ==
    /\ InitSessionOf("bot")
    /\ traced = FALSE
    /\ NoChats
    /\ now = 0
    /\ InitLedger(1..MaxKeys)
    /\ InitRequests({1}, {1}, MaxInvocations)

SpecBot == InitBot /\ [][NextBot]_vars

\* src/bot.js, first program: two callers of makeGeminiRequest, two
\* invocations in all, interleaving at every await (the request and the
\* timer of lines 243 and 252)
InitBotConc ==
    /\ InitSessionOf("bot")
    /\ traced = FALSE
    /\ NoChats
    /\ now = 0
    /\ InitLedger(1..MaxKeys)
    /\ InitRequests({1, 2}, {}, 2)

SpecBotConc == InitBotConc /\ [][NextBot]_vars

\* makeGeminiRequest of either program, one caller at a time
InitRequest == Init000 \/ InitBot

NextRequest ==
    \/ (variant = "p000" /\ Next000)
    \/ (variant = "bot" /\ NextBot)

SpecRequest == InitRequest /\ [][NextRequest]_vars

\* part_000: two callers, interleaving at every await, while the clock
\* stands still (a key that rests keeps resting); the moves of the cursor
\* are kept
InitCursor ==
    /\ InitSessionOf("p000")
    /\ traced = TRUE
    /\ NoChats
    /\ now = 0
    /\ InitLedger(1..MaxKeys)
    /\ InitRequests({1, 2}, {}, MaxInvocations)

NextCursor ==
    \/ \E p \in callers : Start000(p)
    \/ \E p \in callers : RespondOk000(p)
    \/ \E p \in callers : Respond429000(p)
    \/ \E p \in callers : Respond400000(p)
    \/ \E p \in callers : RespondOther000(p)

SpecCursor == InitCursor /\ [][NextCursor]_vars

\* the cursor on any key, rotateApiKey called any number of times in a row
InitRotate ==
    /\ InitSessionOf("bot")
    /\ traced = TRUE
    /\ NoChats
    /\ now = 0
    /\ numKeys \in 1..MaxKeys
    /\ currentKeyIndex \in 0..(numKeys - 1)
    /\ moves = <<>>
    /\ rateLimitResetTime = [k \in 0..(numKeys - 1) |-> 0]
    /\ markedAt = [k \in 0..(numKeys - 1) |-> -1]
    /\ keyUsageStats = [k \in 0..(numKeys - 1) |->
                           [requests |-> 0, errors |-> 0, lastError |-> "null"]]
    /\ InitRequests({}, {}, 0)

SpecRotate == InitRotate /\ [][RotateTimes]_vars

\* part_000: invocations of one caller, the first finding the cursor on any
\* key and any set of keys resting; every request in flight is answered
\* sooner or later
InitTerminate ==
    /\ InitSessionOf("p000")
    /\ traced = FALSE
    /\ NoChats
    /\ now = 0
    /\ numKeys \in 1..MaxKeys
    /\ currentKeyIndex \in 0..(numKeys - 1)
    /\ moves = <<>>
    /\ \E resting \in SUBSET (0..(numKeys - 1)) :
        /\ rateLimitResetTime = [k \in 0..(numKeys - 1) |->
                                    IF k \in resting THEN CoolDownMs ELSE 0]
        /\ markedAt = [k \in 0..(numKeys - 1) |->
                          IF k \in resting THEN 0 ELSE -1]
    /\ keyUsageStats = [k \in 0..(numKeys - 1) |->
                           [requests |-> 0, errors |-> 0, lastError |-> "null"]]
    /\ InitRequests({1}, {}, MaxInvocations)

\* the upstream answers the request of caller p
Answer000(p) ==
    \/ RespondOk000(p)
    \/ Respond429000(p)
    \/ Respond400000(p)
    \/ RespondOther000(p)

SpecTerminate ==
    InitTerminate /\ [][Next000]_vars /\ WF_vars(Answer000(1))

\* part_000: two callers interleaving at every await on a fresh ledger; no
\* call is answered 400 and the calls made with the keys of goodKeys are
\* always answered with a text
InitGood ==
    /\ InitSessionOf("p000")
    /\ traced = FALSE
    /\ NoChats
    /\ now = 0
    /\ InitLedger(1..MaxKeys)
    /\ callers = {1, 2}
    /\ \E g \in 0..(numKeys - 1) : goodKeys = {g}
    /\ toStart = MaxInvocations
    /\ inv = [p \in {1, 2} |-> IdleInvocation]
    /\ observed = {}
    /\ hist = [p \in {1, 2} |-> NoHistory]

NextGood ==
    \/ Tick
    \/ \E p \in callers : Start000(p)
    \/ \E p \in callers : RespondOk000(p)
    \/ \E p \in callers : Respond429000(p)
    \/ \E p \in callers : RespondOther000(p)

SpecGood == InitGood /\ [][NextGood]_vars

\* part_000: invocations of one caller, the first finding the cursor on any
\* key and any set of keys resting since instant 0 but one, the key of
\* goodKeys, whose calls are always answered with a text; no call is
\* answered 400 and every request in flight is answered sooner or later
InitOneGood ==
    /\ InitSessionOf("p000")
    /\ traced = TRUE
    /\ NoChats
    /\ now = 0
    /\ numKeys \in 1..MaxKeys
    /\ currentKeyIndex \in 0..(numKeys - 1)
    /\ moves = <<>>
    /\ \E g \in 0..(numKeys - 1) :
        /\ goodKeys = {g}
        /\ \E resting \in SUBSET ((0..(numKeys - 1)) \ {g}) :
            /\ rateLimitResetTime = [k \in 0..(numKeys - 1) |->
                                        IF k \in resting THEN CoolDownMs ELSE 0]
            /\ markedAt = [k \in 0..(numKeys - 1) |->
                              IF k \in resting THEN 0 ELSE -1]
    /\ keyUsageStats = [k \in 0..(numKeys - 1) |->
                           [requests |-> 0, errors |-> 0, lastError |-> "null"]]
    /\ callers = {1}
    /\ toStart = MaxInvocations
    /\ inv = [p \in {1} |-> IdleInvocation]
    /\ observed = {1}
    /\ hist = [p \in {1} |-> NoHistory]

\* the upstream answers the request of caller p, not with a 400
AnswerGood(p) ==
    \/ RespondOk000(p)
    \/ Respond429000(p)
    \/ RespondOther000(p)

SpecOneGood ==
    InitOneGood /\ [][NextGood]_vars /\ WF_vars(AnswerGood(1))

\* the first program of src/bot.js with messages of two chats arriving at any
\* time (a chat writes again once its message is handled): the handlers of
\* the two chats interleave at every await
InitPair ==
    /\ InitSessionOf("bot")
    /\ traced = FALSE
    /\ userSessions = <<>>
    /\ pipe = [c \in ChatIds |-> IdlePipe]
    /\ inbox = MaxPairMessages
    /\ botMetrics = NoMetrics
    /\ now = 0
    /\ InitLedger({1})
    /\ InitRequests(ChatIds, {}, 0)

SpecPair == InitPair /\ [][NextPair]_vars

\* the first program of src/bot.js with the messages of one chat arriving at
\* any time: two handlers of the same chat interleave at every await
InitSame ==
    /\ InitSessionOf("bot")
    /\ traced = FALSE
    /\ userSessions = <<>>
    /\ pipe = [h \in ChatIds |-> IdlePipe]
    /\ inbox = MaxSameMessages
    /\ botMetrics = NoMetrics
    /\ now = 0
    /\ InitLedger({1})
    /\ InitRequests(ChatIds, {}, 0)

SpecSame == InitSame /\ [][NextSame]_vars

\* part_000: text messages, /start among them, handled one at a time
InitStart000 ==
    /\ InitSessionOf("p000")
    /\ traced = FALSE
    /\ userSessions = <<>>
    /\ pipe = [c \in ChatIds |-> IdlePipe]
    /\ inbox = MaxStartMessages
    /\ botMetrics = NoMetrics
    /\ now = 0
    /\ InitLedger({1})
    /\ InitRequests({}, {}, 0)

SpecStart000 == InitStart000 /\ [][NextStart000]_vars

\* part_000: the text messages of one chat, /start among them, arriving at
\* any time: two handlers of the chat interleave at every await
InitStartSame ==
    /\ InitSessionOf("p000")
    /\ traced = FALSE
    /\ userSessions = <<>>
    /\ pipe = [h \in ChatIds |-> IdlePipe]
    /\ inbox = MaxSameMessages
    /\ botMetrics = NoMetrics
    /\ now = 0
    /\ InitLedger({1})
    /\ InitRequests({}, {}, 0)

SpecStartSame == InitStartSame /\ [][NextStartSame]_vars

\* part_003 handling text messages one at a time
Init003 ==
    /\ InitSessionOf("p003")
    /\ traced = FALSE
    /\ userSessions = <<>>
    /\ pipe = [c \in ChatIds |-> IdlePipe]
    /\ inbox = MaxMessages
    /\ botMetrics = NoMetrics
    /\ now = 0
    /\ InitLedger(1..MaxKeys)
    /\ InitRequests(ChatIds, {}, 0)

Spec003 == Init003 /\ [][Next003]_vars

\* part_000: one invocation of makeGeminiRequest that finds the cursor on any
\* key and any set of keys resting since instant 0 (the ledger earlier
\* invocations leave behind); the status of each answer and the moves of
\* the cursor are kept
InitAnswer ==
    /\ InitSessionOf("p000")
    /\ traced = TRUE
    /\ NoChats
    /\ now = 0
    /\ numKeys \in 1..MaxKeys
    /\ currentKeyIndex \in 0..(numKeys - 1)
    /\ moves = <<>>
    /\ \E resting \in SUBSET (0..(numKeys - 1)) :
        /\ rateLimitResetTime = [k \in 0..(numKeys - 1) |->
                                    IF k \in resting THEN CoolDownMs ELSE 0]
        /\ markedAt = [k \in 0..(numKeys - 1) |->
                          IF k \in resting THEN 0 ELSE -1]
    /\ keyUsageStats = [k \in 0..(numKeys - 1) |->
                           [requests |-> 0, errors |-> 0, lastError |-> "null"]]
    /\ InitRequests({1}, {1}, 1)

SpecAnswer == InitAnswer /\ [][Next000]_vars

\* the Map userSessions of the first program of src/bot.js under /start,
\* /clear and the hourly sweep
InitStore ==
    /\ InitSessionOf("bot")
    /\ traced = FALSE
    /\ userSessions = <<>>
    /\ pipe = [c \in ChatIds |-> IdlePipe]
    /\ inbox = 0
    /\ botMetrics = NoMetrics
    /\ now = 0
    /\ InitLedger({1})
    /\ InitRequests({}, {}, 0)

SpecStore == InitStore /\ [][NextStore]_vars

\* the first program of src/bot.js handling messages one at a time
InitChat ==
    /\ InitSessionOf("bot")
    /\ traced = FALSE
    /\ userSessions = <<>>
    /\ pipe = [c \in ChatIds |-> IdlePipe]
    /\ inbox = MaxMessages
    /\ botMetrics = NoMetrics
    /\ now = 0
    /\ InitLedger({1})
    /\ InitRequests(ChatIds, {}, 0)

SpecChat == InitChat /\ [][NextChat]_vars

(***************************************************************************)
(* Properties.                                                             *)
(***************************************************************************)
\* key k rests at time t under the reset times resets
CoolingAt(resets, k, t) == resets[k] # 0 /\ t < resets[k]

Cooling(k) == CoolingAt(rateLimitResetTime, k, now)

History == session.conversationHistory

\* C1: one top-level invocation of makeGeminiRequest of part_000, the calls
\* of its recursive fallback retry included, issues at most
\* maxAttempts = GEMINI_KEYS.length * 2 upstream calls.
C1_AtMostMaxAttemptsCalls ==
    \A p \in observed : hist[p].calls <= numKeys * 2

\* C2: an invocation of makeGeminiRequest of src/bot.js that completes
\* normally returns the reply text of a successful upstream call.
C2_ReturnsReplyOrThrows ==
    \A p \in observed :
        inv[p].pc = "returned" =>
            \E k \in KeyIndexes : inv[p].result = ReplyText(k)

\* C3: conversationHistory never exceeds the cap of the program (12, 10, 6)
\* and holds exactly the most recently added entries, in insertion order.
C3_HistoryIsLastAdded ==
    LET kept == Min(Cap(variant), Len(added))
    IN  /\ Len(History) <= Cap(variant)
        /\ Len(History) = kept
        /\ \A i \in 1..kept : History[i] = added[Len(added) - kept + i]

C3_Witness ==
    /\ variant = "bot"
    /\ Len(added) = CapBot + 1
    /\ Len(History) = CapBot
    /\ History[1].content = MessageText(2)

\* C4: in makeGeminiRequest of src/bot.js an HTTP 400 answer to the first
\* request makes the invocation fail at once: it has thrown, one upstream
\* call was made and the cursor has not moved.
C4_BadRequestFailsAtOnce ==
    \A p \in observed :
        (hist[p].n400 >= 1 /\ hist[p].n429 = 0 /\ hist[p].nOther = 0) =>
            /\ inv[p].pc = "threw"
            /\ hist[p].calls = 1
            /\ currentKeyIndex = hist[p].startKey

\* C5: part_000 with 3 keys, none cooling, cursor at 0, one caller.  When
\* key 0 answers 429 the key is marked cooling, keys 1 and 2 are not, the
\* cursor moves to 1 and the second request goes out with key 1; when that
\* request succeeds the invocation returns the text of key 1 after exactly
\* two upstream calls, the cursor still at 1 and the ledger as it was.
C5_Scenario ==
    [][\A p \in observed :
        LET begun == /\ numKeys = 3
                     /\ hist[p].startKey = 0
                     /\ hist[p].coolingAtStart = {}
                     /\ hist[p].n400 = 0 /\ hist[p].nOther = 0
                     /\ inv[p].pc = "awaiting"
        IN  /\ (begun /\ hist[p].calls = 1 /\ hist[p].n429 = 0
                      /\ hist'[p].n429 = 1) =>
                  /\ rateLimitResetTime'[0] = now + 60000
                  /\ CoolingAt(rateLimitResetTime', 0, now')
                  /\ ~CoolingAt(rateLimitResetTime', 1, now')
                  /\ ~CoolingAt(rateLimitResetTime', 2, now')
                  /\ currentKeyIndex' = 1
                  /\ inv'[p].pc = "awaiting" /\ inv'[p].usedKey = 1
                  /\ hist'[p].calls = 2
            /\ (begun /\ hist[p].calls = 2 /\ hist[p].n429 = 1
                      /\ inv'[p].pc = "returned") =>
                  /\ inv'[p].result = ReplyText(1)
                  /\ hist'[p].calls = 2
                  /\ currentKeyIndex' = 1
                  /\ rateLimitResetTime' = rateLimitResetTime
                  /\ rateLimitResetTime'[0] # 0
                  /\ ~Cooling(1) /\ ~Cooling(2)
      ]_vars

C5_Witness ==
    /\ numKeys = 3
    /\ hist[1].startKey = 0 /\ hist[1].coolingAtStart = {}
    /\ hist[1].calls = 2 /\ hist[1].n429 = 1
    /\ hist[1].n400 = 0 /\ hist[1].nOther = 0
    /\ inv[1].pc = "returned" /\ inv[1].result = ReplyText(1)
    /\ Cooling(0) /\ ~Cooling(1) /\ ~Cooling(2)
    /\ currentKeyIndex = 1

\* C6: part_000, every key cooling when the invocation begins (the loop
\* then runs to its end without suspending): the invocation throws
\* 'All API keys exhausted' after exactly GEMINI_KEYS.length * 2 loop
\* iterations and no upstream call.
C6_AllCoolingExhausts ==
    \A p \in observed :
        hist[p].coolingAtStart = KeyIndexes =>
            /\ inv[p].pc = "threw"
            /\ inv[p].error = "All API keys exhausted"
            /\ hist[p].iters = numKeys * 2
            /\ hist[p].calls = 0

C6_Witness ==
    /\ numKeys = 3
    /\ hist[1].coolingAtStart = {0, 1, 2}
    /\ inv[1].pc = "threw"
    /\ hist[1].iters = 6

\* C7: part_000, a key marked by handleRateLimit at time T and not marked
\* again: canUseCurrentKey with the cursor on it is false at every time
\* before T + 60000 ms and true from T + 60000 ms on.
C7_CoolDownWindow ==
    markedAt[currentKeyIndex] >= 0 =>
        (canUseCurrentKey(currentKeyIndex, rateLimitResetTime, now)
            <=> now >= markedAt[currentKeyIndex] + 60000)

C7_Witness ==
    /\ markedAt[currentKeyIndex] = 0
    /\ now = 60000
    /\ canUseCurrentKey(currentKeyIndex, rateLimitResetTime, now)

\* C8: part_000, two callers interleaving at every await: whenever a request
\* is issued, the reset time of the key it is issued with is unset or has
\* passed.
C8_NoCallOnCoolingKey ==
    [][\A p \in callers :
        (inv'[p].pc = "awaiting" /\ inv'[p] # inv[p]) =>
            ~CoolingAt(rateLimitResetTime', inv'[p].usedKey, now')
      ]_vars

C8_Witness ==
    /\ numKeys = 3
    /\ inv[1].pc = "awaiting" /\ inv[2].pc = "awaiting"
    /\ Cooling(0) /\ Cooling(1)
    /\ inv[1].usedKey = 2 /\ inv[2].usedKey = 2

\* C9: src/bot.js, any sequence of addMessage and clearHistory calls:
\* messageCount is the number of addMessage calls made so far (one more per
\* call, truncation or not, and never less after clearHistory) and is at
\* least conversationHistory.length.
C9_MessageCount ==
    variant = "bot" =>
        /\ session.messageCount = adds
        /\ session.messageCount >= Len(History)

C9_Witness ==
    /\ variant = "bot"
    /\ lastOp = "clearHistory"
    /\ session.messageCount = CapBot + 1
    /\ Len(History) = 0

\* the lines k..n of a list of entries, each 'role: content', one per line
RECURSIVE LinesOf(_, _, _)
LinesOf(entries, k, n) ==
    IF k > n THEN <<>>
    ELSE IF k = n THEN entries[n].role \o <<58, 32>> \o entries[n].content
    ELSE LinesOf(entries, k, n - 1) \o <<10>>
         \o entries[n].role \o <<58, 32>> \o entries[n].content

Alternating(entries) ==
    \A i \in 1..Len(entries) :
        entries[i].role = (IF i % 2 = 1 THEN User ELSE Assistant)

\* C10: getContext leaves the session unchanged; in src/bot.js it returns
\* the last min(8, length) entries as 'role: content' lines, oldest first,
\* and the empty string for an empty history; in part_003 (cap 6), after 10
\* addMessage calls with alternating roles it returns entries 5 to 10.
C10_GetContext ==
    [][lastOp' = "getContext" =>
        /\ session' = session
        /\ variant = "bot" =>
              LET n == Len(History)
              IN  /\ ret' = LinesOf(History, n - Min(8, n) + 1, n)
                  /\ n = 0 => ret' = <<>>
        /\ (variant = "p003" /\ Len(added) = 10 /\ Alternating(added)) =>
              ret' = LinesOf(added, 5, 10)
      ]_vars

C10_Witness ==
    /\ variant = "p003"
    /\ lastOp = "getContext"
    /\ Len(added) = 10 /\ Alternating(added)
    \* 'user: msg5', 'assistant: msg6', ..., 'assistant: msg10', one per line
    /\ ret = <<117, 115, 101, 114, 58, 32, 109, 115, 103, 53, 10>>
              \o <<97, 115, 115, 105, 115, 116, 97, 110, 116, 58, 32, 109, 115, 103, 54, 10>>
              \o <<117, 115, 101, 114, 58, 32, 109, 115, 103, 55, 10>>
              \o <<97, 115, 115, 105, 115, 116, 97, 110, 116, 58, 32, 109, 115, 103, 56, 10>>
              \o <<117, 115, 101, 114, 58, 32, 109, 115, 103, 57, 10>>
              \o <<97, 115, 115, 105, 115, 116, 97, 110, 116, 58, 32, 109, 115, 103, 49, 48>>

\* C11: on a session of the third program of src/bot.js, once detectLanguage
\* has returned a value, every later detectLanguage call returns that value
\* whatever its text, until /language or /start sets the language.
C11_StickyLanguage ==
    [][(variant = "sticky" /\ lastOp' = "detectLanguage" /\ Len(pinned) > 0) =>
            ret' = pinned[Len(pinned)]
      ]_vars

\* two calls in a row since the last command, the second with an Arabic
\* text, both answered 'en'
C11_Witness ==
    /\ variant = "sticky"
    /\ lastOp = "detectLanguage"
    /\ pinned = <<"en", "en">>
    /\ arabicPattern(arg)

\* C12: detectLanguage of the first program of src/bot.js returns 'ar' for
\* a text with an Arabic character, otherwise 'fr' for a text with an
\* accented Latin character, otherwise 'en'.
C12_Classification ==
    [][(variant = "bot" /\ lastOp' = "detectLanguage") =>
            ret' = (IF arabicPattern(arg') THEN "ar"
                    ELSE IF frenchPattern(arg') THEN "fr"
                    ELSE "en")
      ]_vars

\* C13: after clearHistory on a session of the first program of src/bot.js
\* the history, contextKeywords and interests are empty.
C13_ClearEmptiesAll ==
    (variant = "bot" /\ lastOp = "clearHistory") =>
        /\ Len(session.conversationHistory) = 0
        /\ Len(session.contextKeywords) = 0
        /\ Len(session.interests) = 0

\* C15: k calls of rotateApiKey in a row take the cursor from its value c to
\* (c + k) mod GEMINI_KEYS.length, and back to c when k is a multiple of
\* GEMINI_KEYS.length.
C15_RotateTimes ==
    [][LET k == Len(moves')
       IN  /\ currentKeyIndex' = (currentKeyIndex + k) % numKeys
           /\ (k % numKeys = 0) => currentKeyIndex' = currentKeyIndex
      ]_vars

\* three keys, six calls from key 1: the cursor is on key 1 again
C15_Witness ==
    /\ numKeys = 3
    /\ Len(moves) = 6
    /\ moves[1] = 2
    /\ currentKeyIndex = 1

\* path is a run of advances by one modulo the number of keys that starts
\* after from and ends on to
AdvancesByOne(from, path, to) ==
    /\ Len(path) > 0
    /\ path[1] = (from + 1) % numKeys
    /\ \A i \in 2..Len(path) : path[i] = (path[i - 1] + 1) % numKeys
    /\ to = path[Len(path)]

\* C16: with concurrent invocations interleaving at every await, the cursor
\* is always a valid index of GEMINI_KEYS, and every assignment to it is an
\* advance by exactly one modulo the number of keys.
C16_CursorAdvancesByOne ==
    /\ currentKeyIndex \in 0..(numKeys - 1)
    /\ [][/\ currentKeyIndex' \in 0..(numKeys - 1)
          /\ \/ currentKeyIndex' = currentKeyIndex /\ moves' = <<>>
             \/ AdvancesByOne(currentKeyIndex, moves', currentKeyIndex')
         ]_vars

\* two requests in flight and the last step moved the cursor twice
C16_Witness ==
    /\ numKeys = 3
    /\ \A p \in callers : inv[p].pc = "awaiting"
    /\ Len(moves) = 2

\* C17: an invocation of makeGeminiRequest (part_000, src/bot.js) has at most
\* one upstream call in flight, at most one successful call, and after the
\* successful call it has returned a reply text and issues no other call.
C17_OneSuccessNoOverlap ==
    \A p \in observed :
        LET h == hist[p]
            inFlight == h.calls - (h.nOk + h.n429 + h.n400 + h.nOther)
        IN  /\ h.nOk <= 1
            /\ inFlight \in {0, 1}
            /\ inFlight = 1 <=> inv[p].pc = "awaiting"
            /\ h.nOk = 1 =>
                  /\ inv[p].pc = "returned"
                  /\ inFlight = 0
                  /\ \E k \in KeyIndexes : inv[p].result = ReplyText(k)

\* a success that followed two failed calls of the same invocation
C17_Witness ==
    /\ variant = "p000"
    /\ hist[1].nOk = 1 /\ hist[1].calls = 3
    /\ inv[1].pc = "returned"

\* the message m is part of the message error
Carries(error, m) ==
    \E i \in 0..(Len(error) - Len(m)) : SubSeq(error, i + 1, i + Len(m)) = m

\* C18: in part_000, the Error thrown when the attempts are exhausted
\* carries the message of the last upstream error of the invocation (the
\* error answered in the step that ends the invocation).
C18_ExhaustedCarriesLastError ==
    [][\A p \in observed :
          (inv[p].pc = "awaiting" /\ inv'[p].pc = "threw"
             /\ inv'[p].error # "Invalid request format") =>
              Carries(inv'[p].error,
                      IF hist'[p].n429 > hist[p].n429 THEN ErrorMessage("429")
                      ELSE IF hist'[p].n400 > hist[p].n400 THEN ErrorMessage("400")
                      ELSE ErrorMessage("other"))
      ]_vars

(***************************************************************************)
(* C14: clearHistory leaves the session's messageCount, its                *)
(* preferredLanguage and personality (the pinned language in the sticky    *)
(* variant) as they were, and touches neither the session of another chat  *)
(* nor the key ledger.                                                     *)
(***************************************************************************)
C14_ClearKeepsRest ==
    [][lastOp' = "clearHistory" =>
          /\ session'.messageCount = session.messageCount
          /\ variant = "bot" =>
                /\ session'.preferredLanguage = session.preferredLanguage
                /\ session'.personality = session.personality
          /\ variant = "sticky" => session'.language = session.language
          /\ userSessions' = userSessions
          /\ keyVars' = keyVars]_vars

\* the history of a sticky session with messages and a pinned language has
\* just been cleared
C14_Witness ==
    /\ lastOp = "clearHistory"
    /\ variant = "sticky"
    /\ session.messageCount > 0
    /\ session.language # Null
    /\ 2 \in DOMAIN userSessions

(***************************************************************************)
(* C19: a sweep of the first program of src/bot.js deletes exactly the     *)
(* sessions idle for more than 3,600,000 ms; a session idle for exactly    *)
(* that long stays, and the sessions that stay are not changed.            *)
(***************************************************************************)
C19_SweepRemovesIdle ==
    [][lastOp' = "sweep" =>
          \A c \in ChatIds :
              /\ c \in DOMAIN userSessions' <=>
                    /\ c \in DOMAIN userSessions
                    /\ now - userSessions[c].lastActivity <= 3600000
              /\ c \in DOMAIN userSessions' => userSessions'[c] = userSessions[c]]_vars

\* a sweep has just kept a session idle for exactly the timeout and dropped
\* every other one
C19_Witness ==
    /\ lastOp = "sweep"
    /\ Cardinality(DOMAIN userSessions) = 1
    /\ \E c \in DOMAIN userSessions : now - userSessions[c].lastActivity = 3600000

(***************************************************************************)
(* C20: whenever handleTextMessage has failed, at whichever of its steps,  *)
(* the sending of the fallback notice has been attempted.                  *)
(***************************************************************************)
C20_FallbackAttempted ==
    \A c \in ChatIds :
        pipe[c].failedAt # "none" =>
            \E i \in 1..Len(pipe[c].sends) : pipe[c].sends[i] = "fallback"

\* the upstream request threw and the notice went out
C20_Witness ==
    \E c \in ChatIds :
        /\ pipe[c].failedAt = "upstream"
        /\ pipe[c].pc = "done"
        /\ pipe[c].sends = <<"typing", "fallback">>

(***************************************************************************)
(* C26: part_000: when an upstream call answers 429 or 403, the key that   *)
(* answered is marked cooling for 60 s and the cursor advances by one      *)
(* before the next loop iteration.                                         *)
(***************************************************************************)
C26_QuotaCoolsAndRotates ==
    [][\A p \in observed :
          (/\ hist'[p].n429 + hist'[p].nOther = hist[p].n429 + hist[p].nOther + 1
           /\ hist'[p].last \in {"429", "403"}) =>
              /\ rateLimitResetTime'[inv[p].usedKey] = now + 60000
              /\ Len(moves') >= 1
              /\ moves'[1] = (currentKeyIndex + 1) % numKeys]_vars

(***************************************************************************)
(* C27: part_000: an upstream failure other than 429 and 400 advances the  *)
(* cursor by one, leaves rateLimitResetTime of every key as it was and     *)
(* costs one attempt (each cooling key skipped afterwards costs one more). *)
(***************************************************************************)
C27_OtherFailureRotatesOnly ==
    [][\A p \in observed :
          hist'[p].nOther = hist[p].nOther + 1 =>
              /\ Len(moves') >= 1
              /\ moves'[1] = (currentKeyIndex + 1) % numKeys
              /\ rateLimitResetTime' = rateLimitResetTime
              /\ (IF inv'[p].pc = "awaiting" THEN inv'[p].attempts
                  ELSE maxAttempts000) = inv[p].attempts + 1 + (Len(moves') - 1)]_vars

\* a call just failed with a 5xx while another key was resting, and the next
\* call is in flight
C27_Witness ==
    /\ variant = "p000"
    /\ traced
    /\ 1 \in observed
    /\ hist[1].last = "other"
    /\ inv[1].pc = "awaiting"
    /\ inv[1].attempts = 1
    /\ Len(moves) = 1
    /\ \E k \in KeyIndexes : rateLimitResetTime[k] # 0

(***************************************************************************)
(* C28: part_000: a 400 answered to the first model at retryCount 0 leads  *)
(* to one re-invocation with MODELS.FALLBACK; a 400 answered to the        *)
(* fallback model makes the invocation throw 'Invalid request format' at   *)
(* once; the 400 itself neither rotates the cursor (only cooling keys are  *)
(* skipped by the re-invocation) nor marks a key, and the model is         *)
(* switched at most once per top-level invocation.                         *)
(***************************************************************************)
C28_BadRequestFallsBackOnce ==
    [][\A p \in observed :
          /\ hist'[p].n400 = hist[p].n400 + 1 =>
                /\ rateLimitResetTime' = rateLimitResetTime
                /\ \A i \in 1..Len(moves') :
                      LET from == IF i = 1 THEN currentKeyIndex ELSE moves'[i - 1]
                      IN  /\ Cooling(from)
                          /\ moves'[i] = (from + 1) % numKeys
                /\ IF inv[p].model # ModelFallback /\ inv[p].retryCount = 0
                   THEN \/ /\ inv'[p].pc = "awaiting"
                           /\ inv'[p].model = ModelFallback
                           /\ inv'[p].retryCount = 1
                        \/ /\ inv'[p].pc = "threw"
                           /\ inv'[p].error = "All API keys exhausted"
                           /\ \A k \in KeyIndexes : Cooling(k)
                   ELSE /\ inv'[p].pc = "threw"
                        /\ inv'[p].error = "Invalid request format"
                        /\ moves' = <<>>
          /\ hist'[p].n400 <= 2
          /\ (inv[p].pc = "awaiting" /\ inv[p].model = ModelFallback
                 /\ inv'[p].pc = "awaiting") => inv'[p].model = ModelFallback]_vars

\* the fallback model answered 400 as well and the invocation threw
C28_Witness ==
    /\ variant = "p000"
    /\ traced
    /\ 1 \in observed
    /\ hist[1].n400 = 2
    /\ hist[1].last = "400"
    /\ inv[1].pc = "threw"
    /\ inv[1].error = "Invalid request format"

(***************************************************************************)
(* C30: part_000: when every upstream call is answered sooner or later,    *)
(* every makeGeminiRequest invocation ends (returns or throws), its        *)
(* fallback re-invocation included, whatever the answers are and whichever *)
(* keys are cooling.                                                       *)
(***************************************************************************)
C30_Terminates ==
    (inv[1].pc = "awaiting") ~> (inv[1].pc \in {"returned", "threw"})

\* an invocation ended at its second 400, after the fallback re-invocation,
\* and no further invocation is to be started
C30_Witness ==
    /\ variant = "p000"
    /\ ~traced
    /\ observed = {}
    /\ toStart = 0
    /\ inv[1].pc = "threw"
    /\ inv[1].error = "Invalid request format"
    /\ \E k \in KeyIndexes : Cooling(k)

(***************************************************************************)
(* C22: part_000: two callers interleaving at every await, no call         *)
(* answered 400 and one key whose calls are always answered with a text:   *)
(* every invocation returns a reply, none ends with 'All API keys          *)
(* exhausted'.                                                             *)
(***************************************************************************)
C22_ConcurrentCallersSucceed ==
    \A p \in callers :
        ~(inv[p].pc = "threw" /\ inv[p].error = "All API keys exhausted")

(***************************************************************************)
(* C23: part_000: /start for a chat that has a stored session keeps that   *)
(* session (its history does not shrink, its messageCount does not drop,   *)
(* its preferences stay); a session is created only when the chat has      *)
(* none.                                                                   *)
(***************************************************************************)
C23_StartKeepsSession ==
    [][lastOp' = "start" =>
          LET c == arg'[1]
          IN  /\ c \in DOMAIN userSessions'
              /\ c \in DOMAIN userSessions =>
                    /\ Len(userSessions'[c].conversationHistory)
                          >= Len(userSessions[c].conversationHistory)
                    /\ userSessions'[c].messageCount >= userSessions[c].messageCount
                    /\ userSessions'[c].preferences = userSessions[c].preferences
                    /\ userSessions'[c].preferredLanguage
                          = userSessions[c].preferredLanguage]_vars

(***************************************************************************)
(* C24: first program of src/bot.js: every operation that changes a stored *)
(* session sets its lastActivity to the time of the operation.             *)
(***************************************************************************)
C24_LastActivityIsLastMutation ==
    [][\A c \in DOMAIN userSessions \cap DOMAIN userSessions' :
          userSessions'[c] # userSessions[c] => userSessions'[c].lastActivity = now']_vars

(***************************************************************************)
(* C21: first program of src/bot.js: the handler of the 'message' event    *)
(* always completes normally; no rejection of a send, the send of the      *)
(* fallback notice included, escapes it.                                   *)
(***************************************************************************)
C21_SendFailureNeverEscapes ==
    \A c \in ChatIds : pipe[c].pc # "rejected"

(***************************************************************************)
(* C25: in every interleaving of the text pipelines of two chats, a step   *)
(* of the pipeline of chat a neither creates, changes nor removes the      *)
(* session stored for another chat b.                                      *)
(***************************************************************************)
Moved(c) ==
    \/ pipe'[c] # pipe[c] /\ pipe'[c] # IdlePipe
    \/ inv'[c] # inv[c]

C25_OtherChatUntouched ==
    [][\A a \in ChatIds, b \in ChatIds :
          (a # b /\ Moved(a)) =>
              /\ b \in DOMAIN userSessions' <=> b \in DOMAIN userSessions
              /\ b \in DOMAIN userSessions => userSessions'[b] = userSessions[b]]_vars

\* the pipelines of both chats are pending and both chats have a session: one
\* awaits the upstream, the other the send of its reply
C25_Witness ==
    /\ pipe[1].pc = "replySend"
    /\ pipe[2].pc = "upstream"
    /\ inv[2].pc = "awaiting"
    /\ DOMAIN userSessions = {1, 2}
    /\ Len(userSessions[1].conversationHistory) = 2
    /\ Len(userSessions[2].conversationHistory) = 1

(***************************************************************************)
(* C29: first program of src/bot.js: a text pipeline that reaches the      *)
(* upstream call has looked up or created the session, appended the user   *)
(* entry, built the prompt and sent the typing indicator before it, in     *)
(* that order; when the upstream call succeeded the assistant entry is in  *)
(* the history before the send of the reply is attempted, and when it      *)
(* failed no assistant entry is appended.                                  *)
(***************************************************************************)
LastEntry(c) ==
    userSessions[c].conversationHistory[Len(userSessions[c].conversationHistory)]

C29_PipelineOrder ==
    \A c \in ChatIds :
        LET f == pipe[c]
            e == f.events
            has(x) == \E i \in 1..Len(e) : e[i] = x
        IN  /\ has("upstream") =>
                  /\ Len(e) >= 5
                  /\ SubSeq(e, 1, 5) = <<"session", "user", "prompt", "typing",
                                         "upstream">>
            /\ f.pc = "upstream" =>
                  /\ c \in DOMAIN userSessions
                  /\ LastEntry(c).role = User
                  /\ LastEntry(c).content = f.text
            /\ f.pc = "replySend" =>
                  /\ e = <<"session", "user", "prompt", "typing", "upstream",
                           "assistant", "reply">>
                  /\ LastEntry(c).role = Assistant
            /\ f.failedAt \in {"typing", "upstream", "trim"} =>
                  /\ ~has("assistant")
                  /\ LastEntry(c).role = User
                  /\ LastEntry(c).content = f.text

\* the upstream call succeeded and the reply is being sent
C29_Witness ==
    \E c \in ChatIds :
        /\ pipe[c].pc = "replySend"
        /\ pipe[c].sends = <<"typing", "reply">>
        /\ LastEntry(c).role = Assistant
        /\ LastEntry(c).content = ReplyText(0)

(***************************************************************************)
(* C31: part_000: the key that handleRateLimit marks as cooling after a    *)
(* 429 is the key the request that received the 429 was made with, also    *)
(* when another invocation moved the shared cursor while the request was   *)
(* in flight.                                                              *)
(***************************************************************************)
C31_MarksTheKeyThatWasUsed ==
    [][\A k \in KeyIndexes :
          rateLimitResetTime'[k] # rateLimitResetTime[k] =>
              \E p \in callers :
                  /\ inv[p].pc = "awaiting"
                  /\ inv'[p] # inv[p]
                  /\ inv[p].usedKey = k]_vars

(***************************************************************************)
(* C32: first program of src/bot.js: for every key index i,                *)
(* keyUsageStats[i].errors <= keyUsageStats[i].requests in every reachable *)
(* state, also when several invocations interleave at their awaits.        *)
(***************************************************************************)
C32_ErrorsAtMostRequests ==
    \A i \in KeyIndexes : keyUsageStats[i].errors <= keyUsageStats[i].requests

(***************************************************************************)
(* C33: first program of src/bot.js: for a single chat, every assistant    *)
(* entry of conversationHistory immediately follows the user entry it      *)
(* answers, also when two text messages of the chat are processed at the   *)
(* same time.  Stated on the step that appends the assistant entry: the    *)
(* entry before it is the user entry holding the text of the message the   *)
(* handler answers.                                                        *)
(***************************************************************************)
C33_AnswerFollowsItsQuestion ==
    [][\A h \in ChatIds :
          LET c == pipe[h].chatId
          IN  (/\ pipe[h].pc \in {"upstream", "creatorSend"}
               /\ pipe'[h].pc # pipe[h].pc
               /\ c \in DOMAIN userSessions
               /\ userSessions'[c].messageCount = userSessions[c].messageCount + 1) =>
                  LET after == userSessions'[c].conversationHistory
                      n == Len(after)
                  IN  /\ n >= 2
                      /\ after[n].role = Assistant
                      /\ after[n - 1].role = User
                      /\ after[n - 1].content = pipe[h].text]_vars

(***************************************************************************)
(* C34: part_000: the assistant reply of a text pipeline is appended to    *)
(* the session stored in userSessions under the chat id at the time of     *)
(* appending, also when /start is handled for the chat while the pipeline  *)
(* awaits the upstream call: a session object that is no longer in the     *)
(* store is left as it is.                                                 *)
(***************************************************************************)
C34_ReplyGoesToStoredSession ==
    [][\A h \in ChatIds :
          (pipe[h].pc = "answering" /\ pipe'[h].pc = "done") =>
              pipe'[h].held = pipe[h].held]_vars

(***************************************************************************)
(* C35: part_000, one invocation at a time: a successful upstream call     *)
(* leaves the ledger unchanged (currentKeyIndex and every                  *)
(* rateLimitResetTime entry keep the values they had when the call was     *)
(* issued), so the next invocation starts on the key that last succeeded.  *)
(***************************************************************************)
C35_SuccessLeavesLedger ==
    [][\A p \in callers :
          /\ (inv[p].pc = "awaiting" /\ inv'[p].pc = "returned") =>
                /\ currentKeyIndex' = inv[p].usedKey
                /\ currentKeyIndex' = currentKeyIndex
                /\ rateLimitResetTime' = rateLimitResetTime
          /\ (inv[p].pc = "returned" /\ inv'[p].pc = "awaiting") =>
                /\ inv[p].result = ReplyText(inv'[p].usedKey)
                /\ inv'[p].usedKey = currentKeyIndex
                /\ inv'[p].attempts = 0]_vars

\* the second invocation has returned the reply of key 1 while key 0 rests:
\* the cursor is on key 1 and the mark of key 0 is the one it had
C35_Witness ==
    /\ numKeys >= 2
    /\ toStart = MaxInvocations - 2
    /\ inv[1].pc = "returned"
    /\ inv[1].result = ReplyText(1)
    /\ currentKeyIndex = 1
    /\ Cooling(0)

(***************************************************************************)
(* C36: part_003: every assistant entry of a session's conversationHistory *)
(* holds the text returned by a successful upstream call; handleTextMessage*)
(* appends no assistant entry when makeGeminiRequest obtained no reply,    *)
(* also when every attempt was answered 429.                               *)
(***************************************************************************)
C36_AssistantEntriesAreReplies ==
    \A c \in DOMAIN userSessions :
        \A i \in 1..Len(userSessions[c].conversationHistory) :
            LET entry == userSessions[c].conversationHistory[i]
            IN  entry.role = Assistant =>
                    \E k \in KeyIndexes : entry.content = ReplyText(k)

(***************************************************************************)
(* C37: part_000, one invocation at a time and no 400 answer: when a key   *)
(* that is not cooling at the start is answered with a text whenever it is *)
(* called, makeGeminiRequest returns a reply after at most                 *)
(* GEMINI_KEYS.length loop iterations, whatever the other keys answer and  *)
(* whichever of them are cooling.                                          *)
(***************************************************************************)
C37_GoodKeyIsReached ==
    /\ [](\A p \in observed :
            /\ inv[p].pc # "threw"
            /\ inv[p].pc \in {"awaiting", "returned"} => hist[p].iters <= numKeys
            /\ inv[p].pc = "returned" =>
                  \E k \in KeyIndexes : inv[p].result = ReplyText(k))
    /\ \A p \in {1} : (inv[p].pc = "awaiting") ~> (inv[p].pc = "returned")

\* three keys: the first call is answered 429, the next key is skipped
\* because it rests, the third iteration calls the good key and returns
C37_Witness ==
    /\ numKeys = 3
    /\ inv[1].pc = "returned"
    /\ hist[1].iters = 3
    /\ hist[1].calls = 2
    /\ hist[1].n429 = 1
    /\ hist[1].nOk = 1

(***************************************************************************)
(* C38: first program of src/bot.js: handleTextMessage called with a text  *)
(* that starts with '/' and is longer than one character returns without   *)
(* creating or changing any session, without changing the key ledger or    *)
(* keyUsageStats and without any upstream call or outbound send; the       *)
(* one-character text '/' is not a command and is processed as a normal    *)
(* chat message.                                                           *)
(***************************************************************************)
C38_CommandsAreSkipped ==
    [][\A c \in ChatIds :
          (inbox' = inbox - 1 /\ pipe'[c].pc # "idle" /\ pipe'[c].text # <<>>) =>
              LET text == pipe'[c].text
              IN  /\ (text[1] = 47 /\ Len(text) > 1) =>
                        /\ userSessions' = userSessions
                        /\ UNCHANGED <<keyVars, inv>>
                        /\ pipe'[c].sends = <<>>
                        /\ pipe'[c].pc = "done"
                  /\ text = <<47>> =>
                        /\ c \in DOMAIN userSessions'
                        /\ LET after == userSessions'[c].conversationHistory
                           IN  /\ Len(after) >= 1
                               /\ after[Len(after)].role = User
                               /\ after[Len(after)].content = <<47>>
                        /\ userSessions'[c].messageCount =
                               (IF c \in DOMAIN userSessions
                                THEN userSessions[c].messageCount ELSE 0) + 1
                        /\ pipe'[c].pc = "typing"
                        /\ pipe'[c].sends = <<"typing">>]_vars

\* chat 2 has a session; '/help' of chat 1 has been handled and chat 1 has
\* none
C38_Witness ==
    /\ pipe[1].pc = "done"
    /\ pipe[1].text = <<47, 104, 101, 108, 112>>
    /\ pipe[1].sends = <<>>
    /\ 2 \in DOMAIN userSessions
    /\ 1 \notin DOMAIN userSessions

(***************************************************************************)
(* C39: part_000: each text message whose pipeline fails because           *)
(* makeGeminiRequest throws increases botMetrics.errorsEncountered by      *)
(* exactly one.  The messages are handled one at a time, so the counter    *)
(* moves for a message from the step in which its pipeline fails to the    *)
(* end of its handler; stated on both.                                     *)
(***************************************************************************)
C39_OneErrorPerFailedMessage ==
    [][\A c \in ChatIds :
          /\ (pipe[c].pc = "answering" /\ pipe'[c].failedAt = "upstream") =>
                botMetrics'.errorsEncountered = botMetrics.errorsEncountered + 1
          /\ (pipe[c].pc = "outerSend" /\ pipe[c].failedAt = "upstream") =>
                botMetrics'.errorsEncountered = botMetrics.errorsEncountered]_vars

====
